---- MODULE Spec2Model ----
(***************************************************************************)
(* Process-orchestration core of the launcher:                             *)
(*   - CommandRunner (single-command runner, awaiting kill)                *)
(*   - InstallManager (install workflow on a CommandRunner)                *)
(*   - InvokeManager (application supervisor on the PtyManager)            *)
(*   - PtyManager with the marker protocol                                 *)
(*   - package selection of the install, the status bridge to the          *)
(*     renderer, and the output buffers of a session                       *)
(* Each component has its own specification over the shared variables;     *)
(* the variables of the other components stay at their initial values.     *)
(***************************************************************************)
EXTENDS Integers, Sequences, FiniteSets, TLC

\* ---------------------------------------------------------------- bounds
MaxCmds == 3
MaxRuns == 2
MaxStarts == 2
MaxReadies == 2
MaxSessions == 1
MaxMarkerCmds == 1
MaxOuts == 1
MaxUpdates == 3
MaxPolls == 1
MaxChunks == 3
MaxHistory == 2
MaxConsoles == 2

Cmds == 1..MaxCmds
Runs == 1..MaxRuns
Starts == 1..MaxStarts
Sessions == 1..MaxSessions
MarkerCmds == 1..MaxMarkerCmds
None == 0

\* Interpreter versions <<major, minor, patch>>
NoPy == <<0, 0, 0>>
PinVersions == {<<3, 12, 3>>}
InstalledVersions == {<<3, 12, 1>>, <<3, 11, 3>>, <<2, 12, 3>>}

VARIABLES
  \* CommandRunner (standalone)
  currentEntry,   \* CommandRunner.currentEntry: a command id, or None
  procState,      \* per command: "unspawned" | "alive" | "exited" | "failed"
  procKilled,     \* per command: "no" | "sent" (termination issued) | "threw"
  future,         \* per command: promise returned by runCommand
  callPc,         \* per command: position of the runCommand call
  killTarget,     \* per command: the entry whose kill the call is awaiting
  \* InstallManager (with its own CommandRunner)
  iStatus,        \* InstallManager.status.type
  iErr,           \* InstallManager.status.error [message, context], NoErr unless error
  iCancel,        \* InstallManager.isCancellationRequested
  iCur,           \* commandRunner.currentEntry: the run whose process it is, or None
  iProc,          \* per run: the step process it awaits [step, killed]
  iPc,            \* per run: position of the startInstall invocation
  iTurn,          \* the run that is inside a synchronous segment, or None
  repair,         \* per run: startInstall argument
  pyPin,          \* per run: pinsResult.value.python
  det,            \* per run: installationDetails.pythonVersion (NoPy: not installed)
  fsVenv,         \* file system: <location>/.venv is a directory
  fsPy,           \* file system: interpreter version of the installed package, or NoPy
  marker,         \* file system: first-run marker "absent" | "writing" | "present" | "failed"
  spawned,        \* history, per run: the steps for which it spawned a process
  cancelSeen,     \* history: the runs that were in flight when a cancellation was accepted
  \* InvokeManager (on the PtyManager)
  vStatus,        \* InvokeManager.status.type
  vLast,          \* InvokeManager.lastRunningData, or NoData
  ptys,           \* PtyManager.ptys: the ids in the index
  vProc,          \* per start: its application process "none" | "alive" | "exited"
  vKilled,        \* per start: a termination was issued to its process
  currentPtyId,   \* InvokeManager.currentPtyId, or None
  window,         \* InvokeManager.window refers to an open window
  orphans,        \* open windows that InvokeManager.window no longer refers to
  vPc,            \* per start: position of the startInvoke invocation
  matched,        \* per start: its urlWatcher has reported its match
  readies,        \* history, per start: number of onMatch invocations
  lastExit,       \* history: [code, signal] of the last exit notification
  serverMode,     \* store.get('serverMode')
  vMarker,        \* file system: the first-run marker of the location exists
  firstRun,       \* per start: isFirstRun, while its onMatch can still run
  isShuttingDown, \* main process: cleanup() has run
  \* PtyManager (marker protocol)
  pIndex,         \* PtyManager.ptys: the session ids in the index
  pProc,          \* per session: its process "none" | "alive" | "exited"
  pKills,         \* per session: number of kills issued to its process
  pIo,            \* the last call that reached a process: "none" | "write" | "resize"
  pExits,         \* per session: number of invocations of the consumer's onExit
  pSeen,          \* per session: the index held it when the consumer's onExit ran
  pActive,        \* PtyManager.activeCommands: the registered commands (markers)
  cSess,          \* per command: CommandExecution.id, its session, or None
  cFut,           \* per command: the returned promise "none" | "pending" | "resolved" | "rejected"
  cWhy,           \* per command: the message it was rejected with
  cRes,           \* per command: the value it was resolved with
  cOut,           \* per command: CommandExecution.output, the chunks collected
  cTimer,         \* per command: its timeout timer is armed
  cSettles,       \* per command: number of resolve and reject calls made for it
  cRun,           \* per command: the wrapped command in the shell
  cMark,          \* per command: the digits still to come of a marker line being emitted
  \* Package selection of startInstall
  pkIn,           \* [platform, gpu, pins]: process.platform, the gpuType argument, the pinned indices
  pkSel,          \* [torch, xformers, url]: torchPlatform, withXformers, torchIndexUrl; or NoSel
  pkArgs,         \* [specifier, index]: what the package-install command line carries; or NoArgs
  \* Status bridge between a manager and the renderer's store
  sRole,          \* which manager: "install-process" | "invoke-process"
  sMain,          \* the manager's this.status: <<type, timestamp>>
  sClock,         \* Date.now() of the main process
  sUpdates,       \* number of updateStatus calls made
  sChan,          \* messages from the main process to the renderer, in order
  sStore,         \* the renderer's status atom: <<type, timestamp>>
  sPoll,          \* per poll cycle: "idle" | "asked" | "answered" | "done"
  sOld,           \* per poll cycle: its oldStatus local
  sFresh,         \* poll cycles started since this.status last changed
  \* Output path of one session: escape-sequence buffer and history buffer
  dOpen,          \* the session's process has not exited
  dChunks,        \* number of data events delivered
  aCarry,         \* AnsiSequenceBuffer: the withheld incomplete suffix
  aIn,            \* every chunk appended so far, concatenated
  aOut,           \* every complete returned so far, concatenated
  hItems,         \* SlidingBuffer: its items, oldest first
  hPushed,        \* every item pushed since the buffer was created or cleared
  \* ConsoleManager
  consoleEntry,   \* ConsoleManager.consoleEntry: the id of the console, or None
  kProc,          \* per console: "none" | "alive" | "killed" | "exited"
  kPc,            \* per createConsole call: "idle" | "await" | "done" | "thrown"
  kInput          \* per console: what was written to or done with its process

runnerVars == <<currentEntry, procState, procKilled, future, callPc, killTarget>>

installVars == <<iStatus, iErr, iCancel, iCur, iProc, iPc, iTurn, repair, pyPin, det,
                 fsVenv, fsPy, marker, spawned, cancelSeen>>

invokeVars == <<vStatus, vLast, ptys, vProc, vKilled, currentPtyId, window, orphans,
                vPc, matched, readies, lastExit, serverMode, vMarker, firstRun,
                isShuttingDown>>

ptyVars == <<pIndex, pProc, pKills, pIo, pExits, pSeen, pActive, cSess, cFut, cWhy,
             cRes, cOut, cTimer, cSettles, cRun, cMark>>

pkgVars == <<pkIn, pkSel, pkArgs>>

bridgeVars == <<sRole, sMain, sClock, sUpdates, sChan, sStore, sPoll, sOld, sFresh>>

histVars == <<dOpen, dChunks, aCarry, aIn, aOut, hItems, hPushed>>

consoleVars == <<consoleEntry, kProc, kPc, kInput>>

utilVars == <<pkgVars, bridgeVars, histVars, consoleVars>>

vars == <<runnerVars, installVars, invokeVars, ptyVars, utilVars>>

\* ------------------------------------------------------------------------
\* CommandRunner
\* ------------------------------------------------------------------------

RunnerInit ==
  /\ currentEntry = None
  /\ procState = [c \in Cmds |-> "unspawned"]
  /\ procKilled = [c \in Cmds |-> "no"]
  /\ future = [c \in Cmds |-> "none"]
  /\ callPc = [c \in Cmds |-> "idle"]
  /\ killTarget = [c \in Cmds |-> None]

\* The standalone CommandRunner while another component is being
\* exercised: no command is or will be run.
RunnerParked ==
  /\ currentEntry = None
  /\ procState = <<>>
  /\ procKilled = <<>>
  /\ future = <<>>
  /\ callPc = <<>>
  /\ killTarget = <<>>

\* The promise executor of runCommand: spawn the process, register the
\* callbacks and record the entry; a throwing spawn clears the entry and
\* rejects.  cur, st, fut are the values the executor starts from.
SpawnEntry(c, ok, cur, st, fut) ==
  IF ok
    THEN [cur |-> c,
          st  |-> [st EXCEPT ![c] = "alive"],
          fut |-> [fut EXCEPT ![c] = "pending"]]
    ELSE [cur |-> None,
          st  |-> [st EXCEPT ![c] = "failed"],
          fut |-> [fut EXCEPT ![c] = "rejected"]]

\* killPtyProcessAsync: issue the termination; a throwing kill resolves at once.
IssueKill(killed, v, throws) ==
  [killed EXCEPT ![v] = IF throws THEN "threw" ELSE "sent"]

\* runCommand(c) is called.  With no current entry the call spawns at once;
\* otherwise it takes the entry, clears currentEntry, issues the kill and
\* awaits the victim's exit (or the timeout).
RunCommand(c) ==
  /\ UNCHANGED <<installVars, invokeVars, ptyVars, utilVars>>
  /\ callPc[c] = "idle"
  /\ \A d \in Cmds : d < c => callPc[d] # "idle"
  /\ IF currentEntry = None
       THEN \E ok \in BOOLEAN :
              LET r == SpawnEntry(c, ok, currentEntry, procState, future) IN
              /\ currentEntry' = r.cur
              /\ procState' = r.st
              /\ future' = r.fut
              /\ callPc' = [callPc EXCEPT ![c] = "done"]
              /\ UNCHANGED <<procKilled, killTarget>>
       ELSE \E throws \in BOOLEAN :
              /\ procKilled' = IssueKill(procKilled, currentEntry, throws)
              /\ IF throws
                   THEN \E ok \in BOOLEAN :
                          LET r == SpawnEntry(c, ok, None, procState, future) IN
                          /\ currentEntry' = r.cur
                          /\ procState' = r.st
                          /\ future' = r.fut
                          /\ callPc' = [callPc EXCEPT ![c] = "done"]
                          /\ UNCHANGED killTarget
                   ELSE /\ currentEntry' = None
                        /\ callPc' = [callPc EXCEPT ![c] = "awaitKill"]
                        /\ killTarget' = [killTarget EXCEPT ![c] = currentEntry]
                        /\ future' = [future EXCEPT ![c] = "waiting"]
                        /\ UNCHANGED procState

\* kill() called by the owner of the runner (not awaited by the caller).
RunnerKill ==
  /\ UNCHANGED <<installVars, invokeVars, ptyVars, utilVars>>
  /\ currentEntry # None
  /\ \E throws \in BOOLEAN :
       procKilled' = IssueKill(procKilled, currentEntry, throws)
  /\ currentEntry' = None
  /\ UNCHANGED <<procState, future, callPc, killTarget>>

\* Variant in which an exit notification reaches no awaiting call.
Waiters_None(v) == {}

\* The calls whose awaited kill is the kill of v.
Waiters(v) == {w \in Cmds : callPc[w] = "awaitKill" /\ killTarget[w] = v}

\* The exit notification of process v.  The onExit callback clears
\* currentEntry and resolves v's promise; then the kill promise of a call
\* awaiting v resolves and that call runs its promise executor.
ProcExit(v) ==
  /\ UNCHANGED <<installVars, invokeVars, ptyVars, utilVars>>
  /\ procState[v] = "alive"
  /\ LET st1  == [procState EXCEPT ![v] = "exited"]
         fut1 == [future EXCEPT ![v] = "resolved"]
     IN
     IF Waiters(v) = {}
       THEN /\ currentEntry' = None
            /\ procState' = st1
            /\ future' = fut1
            /\ UNCHANGED <<callPc, killTarget>>
       ELSE \E w \in Waiters(v), ok \in BOOLEAN :
              LET r == SpawnEntry(w, ok, None, st1, fut1) IN
              /\ currentEntry' = r.cur
              /\ procState' = r.st
              /\ future' = r.fut
              /\ callPc' = [callPc EXCEPT ![w] = "done"]
              /\ killTarget' = [killTarget EXCEPT ![w] = None]
  /\ UNCHANGED procKilled

\* The timeout of killPtyProcessAsync elapses before the victim has exited.
KillTimeout(w) ==
  /\ UNCHANGED <<installVars, invokeVars, ptyVars, utilVars>>
  /\ callPc[w] = "awaitKill"
  /\ procState[killTarget[w]] = "alive"
  /\ \E ok \in BOOLEAN :
       LET r == SpawnEntry(w, ok, currentEntry, procState, future) IN
       /\ currentEntry' = r.cur
       /\ procState' = r.st
       /\ future' = r.fut
  /\ callPc' = [callPc EXCEPT ![w] = "done"]
  /\ killTarget' = [killTarget EXCEPT ![w] = None]
  /\ UNCHANGED procKilled

\* isRunning()
IsRunning == currentEntry # None

RunnerNext ==
  \/ \E c \in Cmds : RunCommand(c)
  \/ RunnerKill
  \/ \E v \in Cmds : ProcExit(v)
  \/ \E w \in Cmds : KillTimeout(w)

\* ------------------------------------------------------------------------
\* InstallManager
\* ------------------------------------------------------------------------

NoProc == [step |-> "none", killed |-> FALSE]
NoErr == [message |-> "", context |-> FALSE]

InstallIdle ==
  /\ iStatus = "uninitialized"
  /\ iErr = NoErr
  /\ iCancel = FALSE
  /\ iCur = None
  /\ iProc = [r \in Runs |-> NoProc]
  /\ iPc = [r \in Runs |-> "idle"]
  /\ iTurn = None
  /\ repair = [r \in Runs |-> FALSE]
  /\ pyPin = [r \in Runs |-> NoPy]
  /\ det = [r \in Runs |-> NoPy]
  /\ marker = "absent"
  /\ spawned = [r \in Runs |-> {}]
  /\ cancelSeen = {}

\* The install manager while another component is being exercised.
InstallParked ==
  /\ iStatus = "uninitialized"
  /\ iErr = NoErr
  /\ iCancel = FALSE
  /\ iCur = None
  /\ iProc = <<>>
  /\ iPc = <<>>
  /\ iTurn = None
  /\ repair = <<>>
  /\ pyPin = <<>>
  /\ det = <<>>
  /\ marker = "absent"
  /\ spawned = <<>>
  /\ cancelSeen = {}
  /\ fsVenv = FALSE
  /\ fsPy = NoPy

\* The target directory at the start: fresh, with an environment but no
\* package, or with an installation.
InstallInit ==
  /\ InstallIdle
  /\ fsVenv \in BOOLEAN
  /\ fsPy \in {NoPy} \cup InstalledVersions
  /\ fsPy # NoPy => fsVenv

Major(v) == v[1]
Minor(v) == v[2]

\* Variant of the comparison that looks at the major version only.
PythonVersionMismatch_MajorOnly(d, p) ==
  IF d # NoPy
    THEN ~(Major(d) = Major(p))
    ELSE TRUE

\* pythonVersionMismatch of startInstall: d is the interpreter version of the
\* existing installation (NoPy when isInstalled is false), p the pin.
PythonVersionMismatch(d, p) ==
  IF d # NoPy
    THEN ~(Major(d) = Major(p)) \/ ~(Minor(d) = Minor(p))
    ELSE TRUE

\* Exit codes of a step process: success, failure.
StepExitCodes == {0, 1}

Ended == {"done", "thrown"}
InFlight(r) == iPc[r] \notin {"idle", "done", "thrown"}

\* updateStatus by run r, with a status other than error
Publish(r, t) == iStatus' = t /\ iErr' = NoErr

\* updateStatus by run r, with an error status: its message, and whether
\* it carries the serialized cause as context
PublishError(r, msg, ctx) ==
  /\ iStatus' = "error"
  /\ iErr' = [message |-> msg, context |-> ctx]

\* The message of the error status published for a failed step.
StepMessage(step) ==
  CASE step = "python" -> "Failed to install Python"
    [] step = "venv" -> "Failed to create virtual environment"
    [] step = "app" -> "Failed to install invokeai python package"

\* Variant that takes every non-zero exit for a cancellation.
StepResult_NonZeroCanceled(cancelRequested, code) ==
  IF cancelRequested THEN "canceled"
  ELSE IF code = 0 THEN "success"
  ELSE "canceled"

\* The result of InstallManager.runCommand for an exited process.
StepResult(cancelRequested, code) ==
  IF cancelRequested THEN "canceled"
  ELSE IF code = 0 THEN "success"
  ELSE "error"

\* The locals of an invocation that returned (or threw) are dead.
KeepLocals ==
  /\ repair' = [q \in Runs |-> IF iPc'[q] \in Ended THEN FALSE ELSE repair[q]]
  /\ spawned' = [q \in Runs |-> IF iPc'[q] \in Ended THEN {} ELSE spawned[q]]
  /\ cancelSeen' = {q \in cancelSeen : iPc'[q] \notin Ended}

KeepVersions ==
  /\ pyPin' = [q \in Runs |-> IF iPc'[q] \in Ended THEN NoPy ELSE pyPin[q]]
  /\ det' = [q \in Runs |-> IF iPc'[q] \in Ended THEN NoPy ELSE det[q]]

\* CommandRunner.kill() of the runner of the install manager: terminate the
\* current entry and forget it.
KilledProcs(procs, cur) ==
  IF cur = None THEN procs ELSE [procs EXCEPT ![cur].killed = TRUE]

\* InstallManager.runCommand for a step of run r, up to the spawn.  cur and
\* procs are the runner state the call starts from.  A set cancellation flag
\* returns 'canceled' without spawning; otherwise the runner kills the entry
\* it still holds and spawns; a throwing spawn surfaces as the step's error.
RunStep(r, step, cur, procs) ==
  IF iCancel
    THEN /\ Publish(r, "canceled")
         /\ iPc' = [iPc EXCEPT ![r] = "done"]
         /\ iTurn' = None
         /\ iCur' = cur
         /\ iProc' = procs
         /\ KeepLocals
    ELSE \E ok \in BOOLEAN :
           IF ok
             THEN /\ iProc' = [KilledProcs(procs, cur) EXCEPT
                                 ![r] = [step |-> step, killed |-> FALSE]]
                  /\ iCur' = r
                  /\ iPc' = [iPc EXCEPT ![r] = "wait"]
                  /\ iTurn' = None
                  /\ repair' = repair
                  /\ cancelSeen' = cancelSeen
                  /\ spawned' = [spawned EXCEPT ![r] = @ \cup {step}]
                  /\ UNCHANGED <<iStatus, iErr>>
             ELSE /\ iProc' = KilledProcs(procs, cur)
                  /\ iCur' = None
                  /\ PublishError(r, StepMessage(step), TRUE)
                  /\ iPc' = [iPc EXCEPT ![r] = "done"]
                  /\ iTurn' = None
                  /\ KeepLocals

\* The cancellation check between two steps, then the package-install step.
CheckThenApp(r, cur, procs) ==
  IF iCancel
    THEN /\ Publish(r, "canceled")
         /\ iPc' = [iPc EXCEPT ![r] = "done"]
         /\ iTurn' = None
         /\ iCur' = cur
         /\ iProc' = procs
         /\ KeepLocals
    ELSE RunStep(r, "app", cur, procs)

\* startInstall is invoked: reset the flag, publish starting, await the
\* location check.
StartInstall(r) ==
  /\ iTurn = None
  /\ iPc[r] = "idle"
  /\ \A q \in Runs : q < r => iPc[q] # "idle"
  /\ \E rep \in BOOLEAN : repair' = [repair EXCEPT ![r] = rep]
  /\ iCancel' = FALSE
  /\ Publish(r, "starting")
  /\ iPc' = [iPc EXCEPT ![r] = "locCheck"]
  /\ UNCHANGED <<iCur, iProc, iTurn, pyPin, det, fsVenv, fsPy, marker, spawned, cancelSeen>>
  /\ UNCHANGED <<runnerVars, invokeVars, ptyVars, utilVars>>

\* The location check returns; then the platform assertion; then getPins is awaited.
LocationChecked(r) ==
  /\ iTurn = None
  /\ iPc[r] = "locCheck"
  /\ \E locOk \in BOOLEAN, platformOk \in BOOLEAN :
       IF ~locOk
         THEN /\ PublishError(r, "Install location is not a directory", FALSE)
              /\ iPc' = [iPc EXCEPT ![r] = "done"]
         ELSE IF ~platformOk
           THEN /\ iPc' = [iPc EXCEPT ![r] = "thrown"]
                /\ UNCHANGED <<iStatus, iErr>>
           ELSE /\ iPc' = [iPc EXCEPT ![r] = "pins"]
                /\ UNCHANGED <<iStatus, iErr>>
  /\ KeepLocals
  /\ UNCHANGED <<iCancel, iCur, iProc, iTurn, pyPin, det, fsVenv, fsPy, marker>>
  /\ UNCHANGED <<runnerVars, invokeVars, ptyVars, utilVars>>

\* getPins returns or throws; then getInstallationDetails is awaited.
PinsResolved(r) ==
  /\ iTurn = None
  /\ iPc[r] = "pins"
  /\ \/ /\ PublishError(r, "Failed to get pins", TRUE)
        /\ iPc' = [iPc EXCEPT ![r] = "done"]
        /\ UNCHANGED pyPin
     \/ \E p \in PinVersions :
          /\ pyPin' = [pyPin EXCEPT ![r] = p]
          /\ iPc' = [iPc EXCEPT ![r] = "details"]
          /\ UNCHANGED <<iStatus, iErr>>
  /\ KeepLocals
  /\ UNCHANGED <<iCancel, iCur, iProc, iTurn, det, fsVenv, fsPy, marker>>
  /\ UNCHANGED <<runnerVars, invokeVars, ptyVars, utilVars>>

\* getInstallationDetails returns (its interpreter probe may throw for an
\* existing installation); then the uv executable check is awaited.
DetailsProbed(r) ==
  /\ iTurn = None
  /\ iPc[r] = "details"
  /\ \/ /\ fsVenv /\ fsPy # NoPy
        /\ iPc' = [iPc EXCEPT ![r] = "thrown"]
        /\ KeepVersions
     \/ /\ det' = [det EXCEPT ![r] = IF fsVenv THEN fsPy ELSE NoPy]
        /\ iPc' = [iPc EXCEPT ![r] = "uvCheck"]
        /\ UNCHANGED pyPin
  /\ KeepLocals
  /\ UNCHANGED <<iStatus, iErr, iCancel, iCur, iProc, iTurn, fsVenv, fsPy, marker>>
  /\ UNCHANGED <<runnerVars, invokeVars, ptyVars, utilVars>>

\* The uv executable check returns: error, or publish installing.
UvChecked(r) ==
  /\ iTurn = None
  /\ iPc[r] = "uvCheck"
  /\ \E uvOk \in BOOLEAN :
       IF ~uvOk
         THEN /\ PublishError(r, "Failed to access uv executable", TRUE)
              /\ iPc' = [iPc EXCEPT ![r] = "done"]
              /\ UNCHANGED iTurn
         ELSE /\ Publish(r, "installing")
              /\ iPc' = [iPc EXCEPT ![r] = "python"]
              /\ iTurn' = r
  /\ KeepLocals
  /\ KeepVersions
  /\ UNCHANGED <<iCancel, iCur, iProc, fsVenv, fsPy, marker>>
  /\ UNCHANGED <<runnerVars, invokeVars, ptyVars, utilVars>>

\* Same synchronous segment, after installing was published: kill a command
\* the runner still holds, then the interpreter-install step if repair or
\* mismatch, else the cancellation check and the environment probe.
PythonStep(r) ==
  /\ iTurn = r
  /\ iPc[r] = "python"
  /\ IF repair[r] \/ PythonVersionMismatch(det[r], pyPin[r])
       THEN RunStep(r, "python", None, KilledProcs(iProc, iCur))
       ELSE /\ iProc' = KilledProcs(iProc, iCur)
            /\ iCur' = None
            /\ iTurn' = None
            /\ IF iCancel
                 THEN /\ Publish(r, "canceled")
                      /\ iPc' = [iPc EXCEPT ![r] = "done"]
                 ELSE /\ iPc' = [iPc EXCEPT ![r] = "venvProbe"]
                      /\ UNCHANGED <<iStatus, iErr>>
            /\ KeepLocals
  /\ KeepVersions
  /\ UNCHANGED <<iCancel, fsVenv, fsPy, marker>>
  /\ UNCHANGED <<runnerVars, invokeVars, ptyVars, utilVars>>

\* isDirectory(venvPath) returns: delete the environment first (repair or
\* mismatch), or create it if missing, or reuse it and go on to the package.
VenvProbed(r) ==
  /\ iTurn = None
  /\ iPc[r] = "venvProbe"
  /\ IF (repair[r] \/ PythonVersionMismatch(det[r], pyPin[r])) /\ fsVenv
       THEN /\ iPc' = [iPc EXCEPT ![r] = "venvRm"]
            /\ UNCHANGED <<iStatus, iErr, iCur, iProc, iTurn, repair, spawned, cancelSeen>>
       ELSE IF ~fsVenv
         THEN RunStep(r, "venv", iCur, iProc)
         ELSE CheckThenApp(r, iCur, iProc)
  /\ KeepVersions
  /\ UNCHANGED <<iCancel, fsVenv, fsPy, marker>>
  /\ UNCHANGED <<runnerVars, invokeVars, ptyVars, utilVars>>

\* fs.rm of the environment returns (a failure is only logged); the
\* environment is then created.
VenvRemoved(r) ==
  /\ iTurn = None
  /\ iPc[r] = "venvRm"
  /\ \E ok \in BOOLEAN :
       /\ fsVenv' = IF ok THEN FALSE ELSE fsVenv
       /\ fsPy' = IF ok THEN NoPy ELSE fsPy
  /\ RunStep(r, "venv", iCur, iProc)
  /\ KeepVersions
  /\ UNCHANGED <<iCancel, marker>>
  /\ UNCHANGED <<runnerVars, invokeVars, ptyVars, utilVars>>

\* The exit notification of the step process of run r.  The runner's onExit
\* clears currentEntry and resolves; InstallManager.runCommand maps the
\* result (canceled / success / error) and the workflow goes on to the next
\* step in the same turn.
StepExitWith(r, code) ==
  /\ iTurn = None
  /\ iPc[r] = "wait"
  /\ LET step  == iProc[r].step
         procs == [iProc EXCEPT ![r] = NoProc]
         res   == StepResult(iCancel, code)
     IN
       /\ fsVenv' = IF step = "venv" /\ code = 0 THEN TRUE ELSE fsVenv
       /\ fsPy' = IF step = "app" /\ code = 0 /\ fsVenv THEN pyPin[r] ELSE fsPy
       /\ IF res = "canceled"
            THEN /\ Publish(r, "canceled")
                 /\ iPc' = [iPc EXCEPT ![r] = "done"]
                 /\ iCur' = None
                 /\ iProc' = procs
                 /\ KeepLocals
                 /\ UNCHANGED <<iTurn, marker>>
            ELSE IF res = "error"
              THEN /\ PublishError(r, StepMessage(step), TRUE)
                   /\ iPc' = [iPc EXCEPT ![r] = "done"]
                   /\ iCur' = None
                   /\ iProc' = procs
                   /\ KeepLocals
                   /\ UNCHANGED <<iTurn, marker>>
              ELSE IF step = "python"
                THEN /\ iPc' = [iPc EXCEPT ![r] = "venvProbe"]
                     /\ iCur' = None
                     /\ iProc' = procs
                     /\ UNCHANGED <<iStatus, iErr, iTurn, marker, repair, spawned, cancelSeen>>
                ELSE IF step = "venv"
                  THEN /\ CheckThenApp(r, None, procs)
                       /\ UNCHANGED marker
                  ELSE /\ marker' = "writing"
                       /\ Publish(r, "completed")
                       /\ iPc' = [iPc EXCEPT ![r] = "done"]
                       /\ iCur' = None
                       /\ iProc' = procs
                       /\ KeepLocals
                       /\ UNCHANGED iTurn
  /\ KeepVersions
  /\ UNCHANGED iCancel
  /\ UNCHANGED <<runnerVars, invokeVars, ptyVars, utilVars>>

StepExit(r) == \E code \in StepExitCodes : StepExitWith(r, code)

\* fs.writeFile of the first-run marker completes or fails (only logged).
MarkerWritten ==
  /\ marker = "writing"
  /\ marker' \in {"present", "failed"}
  /\ UNCHANGED <<iStatus, iErr, iCancel, iCur, iProc, iPc, iTurn, repair, pyPin, det,
                 fsVenv, fsPy, spawned, cancelSeen>>
  /\ UNCHANGED <<runnerVars, invokeVars, ptyVars, utilVars>>

\* Variant of the test that takes an installation to be in progress always.
InstallInProgress_Always(status) == TRUE

\* installInProgress of cancelInstall
InstallInProgress(status) == status \in {"installing", "starting"}

\* cancelInstall while an installation is in progress: set the flag, publish
\* canceling, kill the running command.  In any other status it returns
\* having changed nothing.
CancelInstall ==
  /\ iTurn = None
  /\ InstallInProgress(iStatus)
  /\ iCancel' = TRUE
  /\ Publish(None, "canceling")
  /\ iProc' = KilledProcs(iProc, iCur)
  /\ iCur' = None
  /\ cancelSeen' = cancelSeen \cup {r \in Runs : InFlight(r)}
  /\ UNCHANGED <<iPc, iTurn, repair, pyPin, det, fsVenv, fsPy, marker, spawned>>
  /\ UNCHANGED <<runnerVars, invokeVars, ptyVars, utilVars>>

InstallNext ==
  \/ \E r \in Runs : StartInstall(r)
  \/ \E r \in Runs : LocationChecked(r)
  \/ \E r \in Runs : PinsResolved(r)
  \/ \E r \in Runs : DetailsProbed(r)
  \/ \E r \in Runs : UvChecked(r)
  \/ \E r \in Runs : PythonStep(r)
  \/ \E r \in Runs : VenvProbed(r)
  \/ \E r \in Runs : VenvRemoved(r)
  \/ \E r \in Runs : StepExit(r)
  \/ MarkerWritten
  \/ CancelInstall

\* ------------------------------------------------------------------------
\* InvokeManager
\* ------------------------------------------------------------------------

\* A URL is a host (a sequence of text pieces) and a port.
AnyHost == <<"0.0.0.0">>
LoopbackHost == <<"127.0.0.1">>
Hosts == {AnyHost, LoopbackHost}
Ports == {9090}
Urls == [host : Hosts, port : Ports]
NoUrl == [host |-> <<>>, port |-> 0]
NoData == [url |-> NoUrl, loopbackUrl |-> NoUrl, lanUrl |-> NoUrl]

\* ip.address(): the host's primary network address
HostAddress == "192.168.1.5"

\* An output chunk: whether it carries the "Uvicorn running" / "Invoke
\* running" text, and the first URL in it (NoUrl: none).
Chunks == [ready : BOOLEAN, url : Urls \cup {NoUrl}]

NoSignal == -1
ExitCodes == {0, 1}
Signals == {NoSignal, 0, 15}
NoExit == [code |-> 0, signal |-> NoSignal]

InvokeInit ==
  /\ vStatus = "uninitialized"
  /\ vLast = NoData
  /\ ptys = {}
  /\ vProc = [k \in Starts |-> "none"]
  /\ vKilled = [k \in Starts |-> FALSE]
  /\ currentPtyId = None
  /\ window = FALSE
  /\ orphans = 0
  /\ vPc = [k \in Starts |-> "idle"]
  /\ matched = [k \in Starts |-> FALSE]
  /\ readies = [k \in Starts |-> 0]
  /\ lastExit = NoExit
  /\ serverMode \in BOOLEAN
  /\ vMarker \in BOOLEAN
  /\ firstRun = [k \in Starts |-> FALSE]
  /\ isShuttingDown = FALSE

\* The supervisor while another component is being exercised.
InvokeParked ==
  /\ vStatus = "uninitialized"
  /\ vLast = NoData
  /\ ptys = {}
  /\ vProc = <<>>
  /\ vKilled = <<>>
  /\ currentPtyId = None
  /\ window = FALSE
  /\ orphans = 0
  /\ vPc = <<>>
  /\ matched = <<>>
  /\ readies = <<>>
  /\ lastExit = NoExit
  /\ serverMode = FALSE
  /\ vMarker = FALSE
  /\ firstRun = <<>>
  /\ isShuttingDown = FALSE

\* String.replace(piece, with): the first occurrence only.
ReplaceFirst(seq, piece, with) ==
  IF \E i \in 1..Len(seq) : seq[i] = piece
    THEN LET i == CHOOSE i \in 1..Len(seq) :
                    seq[i] = piece /\ \A j \in 1..(i - 1) : seq[j] # piece
         IN [seq EXCEPT ![i] = with]
    ELSE seq

\* String.includes(piece)
Includes(seq, piece) == \E i \in 1..Len(seq) : seq[i] = piece

\* The running data with the matched url taken over as the loopback url.
RunningData_RawLoopback(url) ==
  [url |-> url,
   loopbackUrl |-> url,
   lanUrl |-> IF Includes(url.host, "0.0.0.0")
                THEN [url EXCEPT !.host = ReplaceFirst(url.host, "0.0.0.0", HostAddress)]
                ELSE NoUrl]

\* The running data built by onMatch from the matched url.
RunningData(url) ==
  [url |-> url,
   loopbackUrl |-> [url EXCEPT !.host = ReplaceFirst(url.host, "0.0.0.0", "127.0.0.1")],
   lanUrl |-> IF Includes(url.host, "0.0.0.0")
                THEN [url EXCEPT !.host = ReplaceFirst(url.host, "0.0.0.0", HostAddress)]
                ELSE NoUrl]

\* StringMatcher.checkForMatch: the filter first, then the expression; the
\* callback is invoked at most once.  Returns the url handed to onMatch, or
\* NoUrl when the callback is not invoked.
CheckForMatch(chunk, alreadyMatched) ==
  IF chunk.ready /\ chunk.url # NoUrl /\ ~alreadyMatched THEN chunk.url ELSE NoUrl

\* The classification of an exit notification by the onExit callback.
ExitStatus(code, signal) ==
  IF code = 0 THEN "exited"
  ELSE IF signal # NoSignal THEN "exited"
  ELSE "error"

\* The render-process-gone handler publishing only without a tracked process.
CrashStatus_Untracked(last, cur, st) ==
  IF last # NoData /\ cur = None THEN "window-crashed" ELSE st

\* The status left by the render-process-gone handler.
CrashStatus(last, cur, st) ==
  IF last # NoData /\ cur # None THEN "window-crashed" ELSE st

\* PtyManager.kill(id) / the kill inside PtyManager.dispose(id)
PtyKilled(id) ==
  IF id \in ptys THEN [vKilled EXCEPT ![id] = TRUE] ELSE vKilled

\* Variant of the installation test that accepts every location.
Unusable_Never(isInstalled) == FALSE

\* !dirDetails.isInstalled
Unusable(isInstalled) == ~isInstalled

\* startInvoke is invoked, through its handler, which cleanupInvokeManager
\* removes: publish starting, await the installation probes.
StartInvoke(k) ==
  /\ ~isShuttingDown
  /\ vPc[k] = "idle"
  /\ \A j \in Starts : j < k => vPc[j] # "idle"
  /\ vStatus' = "starting"
  /\ vPc' = [vPc EXCEPT ![k] = "probe"]
  /\ UNCHANGED <<vLast, ptys, vProc, vKilled, currentPtyId, window, orphans, matched,
                 readies, lastExit, serverMode>>
  /\ UNCHANGED <<vMarker, firstRun, isShuttingDown>>
  /\ UNCHANGED <<runnerVars, installVars, ptyVars, utilVars>>

\* The probes return: error for an unusable installation; otherwise dispose
\* the previous PTY and create the PTY of the application process.
InvokeProbedWith(k, isInstalled, spawnOk) ==
  /\ vPc[k] = "probe"
  /\   IF Unusable(isInstalled)
         THEN /\ vStatus' = "error"
              /\ vPc' = [vPc EXCEPT ![k] = "done"]
              /\ UNCHANGED <<ptys, vProc, vKilled, currentPtyId>>
         ELSE /\ vKilled' = IF currentPtyId # None THEN PtyKilled(currentPtyId) ELSE vKilled
              /\ IF spawnOk
                   THEN /\ ptys' = (ptys \ {currentPtyId}) \cup {k}
                        /\ vProc' = [vProc EXCEPT ![k] = "alive"]
                        /\ currentPtyId' = k
                        /\ vPc' = [vPc EXCEPT ![k] = "done"]
                   ELSE /\ ptys' = ptys \ {currentPtyId}
                        /\ currentPtyId' = None
                        /\ vPc' = [vPc EXCEPT ![k] = "thrown"]
                        /\ UNCHANGED vProc
              /\ UNCHANGED vStatus
  /\ firstRun' = [firstRun EXCEPT ![k] = vMarker /\ vProc'[k] = "alive"]
  /\ UNCHANGED <<vLast, window, orphans, matched, readies, lastExit, serverMode, vMarker>>
  /\ UNCHANGED isShuttingDown
  /\ UNCHANGED <<runnerVars, installVars, ptyVars, utilVars>>

InvokeProbed(k) ==
  \E isInstalled \in BOOLEAN, spawnOk \in BOOLEAN : InvokeProbedWith(k, isInstalled, spawnOk)

\* An output chunk of the process of start k: its urlWatcher is consulted;
\* on a match the running data is stored, the window is created (unless
\* server mode) and running is published.
AppData(k) ==
  /\ vProc[k] = "alive"
  /\ readies[k] < MaxReadies
  /\ \E chunk \in Chunks :
       LET url == CheckForMatch(chunk, matched[k]) IN
       /\ url # NoUrl
       /\ matched' = [matched EXCEPT ![k] = TRUE]
       /\ readies' = [readies EXCEPT ![k] = @ + 1]
       /\ vLast' = RunningData(url)
       /\ IF ~serverMode
            THEN /\ window' = TRUE
                 /\ orphans' = IF window THEN orphans + 1 ELSE orphans
            ELSE UNCHANGED <<window, orphans>>
       /\ vStatus' = "running"
  /\ vMarker' \in (IF firstRun[k] THEN {FALSE, vMarker} ELSE {vMarker})
  /\ firstRun' = [firstRun EXCEPT ![k] = FALSE]
  /\ UNCHANGED <<ptys, vProc, vKilled, currentPtyId, vPc, lastExit, serverMode>>
  /\ UNCHANGED isShuttingDown
  /\ UNCHANGED <<runnerVars, installVars, ptyVars, utilVars>>

\* The exit notification of the process of start k: the PtyManager removes
\* the entry, then the onExit callback classifies the exit and closes the
\* window.
AppExit(k) ==
  /\ vProc[k] = "alive"
  /\ \E code \in ExitCodes, signal \in Signals :
       /\ lastExit' = [code |-> code, signal |-> signal]
       /\ vStatus' = ExitStatus(code, signal)
  /\ vProc' = [vProc EXCEPT ![k] = "exited"]
  /\ ptys' = ptys \ {k}
  /\ currentPtyId' = IF currentPtyId = k THEN None ELSE currentPtyId
  /\ window' = FALSE
  /\ firstRun' = [firstRun EXCEPT ![k] = FALSE]
  /\ UNCHANGED <<vLast, vKilled, orphans, vPc, matched, readies, serverMode, vMarker>>
  /\ UNCHANGED isShuttingDown
  /\ UNCHANGED <<runnerVars, installVars, ptyVars, utilVars>>

\* exitInvoke (exit command, or the close event of the window): publish
\* exiting, close the window, kill the tracked process and forget it.
ExitInvoke ==
  /\ vStatus' = "exiting"
  /\ window' = FALSE
  /\ vKilled' = IF currentPtyId # None THEN PtyKilled(currentPtyId) ELSE vKilled
  /\ currentPtyId' = None
  /\ UNCHANGED <<vLast, ptys, vProc, orphans, vPc, matched, readies, lastExit, serverMode>>
  /\ UNCHANGED <<vMarker, firstRun, isShuttingDown>>
  /\ UNCHANGED <<runnerVars, installVars, ptyVars, utilVars>>

\* The close event of a window the supervisor no longer refers to: the
\* same exitInvoke, and that window closes.
OrphanClosed ==
  /\ orphans > 0
  /\ orphans' = orphans - 1
  /\ vStatus' = "exiting"
  /\ window' = FALSE
  /\ vKilled' = IF currentPtyId # None THEN PtyKilled(currentPtyId) ELSE vKilled
  /\ currentPtyId' = None
  /\ UNCHANGED <<vLast, ptys, vProc, vPc, matched, readies, lastExit, serverMode>>
  /\ UNCHANGED <<vMarker, firstRun, isShuttingDown>>
  /\ UNCHANGED <<runnerVars, installVars, ptyVars, utilVars>>

\* render-process-gone of the window the supervisor refers to.
WindowCrashed ==
  /\ window
  /\ vStatus' = CrashStatus(vLast, currentPtyId, vStatus)
  /\ window' = FALSE
  /\ UNCHANGED <<vLast, ptys, vProc, vKilled, currentPtyId, orphans, vPc, matched, readies,
                 lastExit, serverMode>>
  /\ UNCHANGED <<vMarker, firstRun, isShuttingDown>>
  /\ UNCHANGED <<runnerVars, installVars, ptyVars, utilVars>>

\* render-process-gone of a window the supervisor no longer refers to: the
\* same handler, which destroys the window the supervisor refers to.
OrphanCrashed ==
  /\ orphans > 0
  /\ orphans' = orphans - 1
  /\ vStatus' = CrashStatus(vLast, currentPtyId, vStatus)
  /\ window' = FALSE
  /\ UNCHANGED <<vLast, ptys, vProc, vKilled, currentPtyId, vPc, matched, readies,
                 lastExit, serverMode>>
  /\ UNCHANGED <<vMarker, firstRun, isShuttingDown>>
  /\ UNCHANGED <<runnerVars, installVars, ptyVars, utilVars>>

\* reopenWindow: only without an open window, with running data and with a
\* tracked process.
ReopenWindow ==
  /\ ~window
  /\ vLast # NoData
  /\ currentPtyId # None
  /\ window' = TRUE
  /\ vStatus' = "running"
  /\ UNCHANGED <<vLast, ptys, vProc, vKilled, currentPtyId, orphans, vPc, matched, readies,
                 lastExit, serverMode>>
  /\ UNCHANGED <<vMarker, firstRun, isShuttingDown>>
  /\ UNCHANGED <<runnerVars, installVars, ptyVars, utilVars>>

\* cleanup() of the main process, once (isShuttingDown), running
\* cleanupInvokeManager: exitInvoke when the status is running or starting.
CleanupInvoke ==
  /\ ~isShuttingDown
  /\ isShuttingDown' = TRUE
  /\ IF vStatus \in {"running", "starting"}
       THEN /\ vStatus' = "exiting"
            /\ window' = FALSE
            /\ vKilled' = IF currentPtyId # None THEN PtyKilled(currentPtyId) ELSE vKilled
            /\ currentPtyId' = None
       ELSE UNCHANGED <<vStatus, window, vKilled, currentPtyId>>
  /\ UNCHANGED <<vLast, ptys, vProc, orphans, vPc, matched, readies, lastExit, serverMode>>
  /\ UNCHANGED <<vMarker, firstRun>>
  /\ UNCHANGED <<runnerVars, installVars, ptyVars, utilVars>>

InvokeNext ==
  \/ \E k \in Starts : StartInvoke(k)
  \/ \E k \in Starts : InvokeProbed(k)
  \/ \E k \in Starts : AppData(k)
  \/ \E k \in Starts : AppExit(k)
  \/ ExitInvoke
  \/ OrphanClosed
  \/ WindowCrashed
  \/ OrphanCrashed
  \/ ReopenWindow
  \/ CleanupInvoke

\* ------------------------------------------------------------------------
\* PtyManager with the marker protocol
\* ------------------------------------------------------------------------

\* Exit codes of a command run in the shell of a session.
ShellExitCodes == {0, 1}
\* The shell syntaxes of wrapCommandForShell.
Shells == {"posix", "powershell", "cmd"}
NoCode == -1

\* Pieces of output text: ordinary output, the marker line of command c
\* with its digits, the part of that line up to the colon, the digits.
OutPiece == <<"out">>
MarkPiece(c, code) == <<"marker", c, code>>
HeadPiece(c) == <<"head", c>>
TailPiece(code) == <<"digits", code>>

NoRes == [exitCode |-> NoCode, output |-> <<>>]

\* No write or resize has reached a process yet.
NoIo == "none"

PtyInit ==
  /\ pIndex = {}
  /\ pProc = [s \in Sessions |-> "none"]
  /\ pKills = [s \in Sessions |-> 0]
  /\ pIo = NoIo
  /\ pExits = [s \in Sessions |-> 0]
  /\ pSeen = [s \in Sessions |-> FALSE]
  /\ pActive = {}
  /\ cSess = [c \in MarkerCmds |-> None]
  /\ cFut = [c \in MarkerCmds |-> "none"]
  /\ cWhy = [c \in MarkerCmds |-> ""]
  /\ cRes = [c \in MarkerCmds |-> NoRes]
  /\ cOut = [c \in MarkerCmds |-> <<>>]
  /\ cTimer = [c \in MarkerCmds |-> FALSE]
  /\ cSettles = [c \in MarkerCmds |-> 0]
  /\ cRun = [c \in MarkerCmds |-> "none"]
  /\ cMark = [c \in MarkerCmds |-> NoCode]

\* The PtyManager while another component is being exercised: no session
\* and no command exists or will.
PtyParked ==
  /\ pIndex = {}
  /\ pProc = <<>>
  /\ pKills = <<>>
  /\ pIo = NoIo
  /\ pExits = <<>>
  /\ pSeen = <<>>
  /\ pActive = {}
  /\ cSess = <<>>
  /\ cFut = <<>>
  /\ cWhy = <<>>
  /\ cRes = <<>>
  /\ cOut = <<>>
  /\ cTimer = <<>>
  /\ cSettles = <<>>
  /\ cRun = <<>>
  /\ cMark = <<>>

\* Variant of do() that finds an entry for every id.
Found_Always(s, idx) == TRUE

\* do(id, callback): the callback runs only for an id in the index.
Found(s, idx) == s \in idx

\* Variant that selects no command.
PendingOf_None(s) == {}

\* The registered commands of session s (the loops over activeCommands).
PendingOf(s) == {c \in pActive : cSess[c] = s}

\* A promise settles at most once: the first resolve or reject wins.
Settle(f, new) == IF f = "pending" THEN new ELSE f

\* reject(...) and activeCommands.delete(marker) for the commands cs.
Reject(cs, why) ==
  /\ cFut' = [c \in MarkerCmds |-> IF c \in cs THEN Settle(cFut[c], "rejected") ELSE cFut[c]]
  /\ cWhy' = [c \in MarkerCmds |-> IF c \in cs /\ cFut[c] = "pending" THEN why ELSE cWhy[c]]
  /\ cSettles' = [c \in MarkerCmds |-> IF c \in cs THEN cSettles[c] + 1 ELSE cSettles[c]]
  /\ pActive' = pActive \ cs
  /\ cOut' = [c \in MarkerCmds |-> IF c \in cs THEN <<>> ELSE cOut[c]]

\* data.match(new RegExp(marker + ':(\d+)')): the chunk holds the marker of
\* command c followed by digits.
HasMarker(chunk, c) ==
  \E i \in 1..Len(chunk) : chunk[i][1] = "marker" /\ chunk[i][2] = c

\* parseInt(match[1], 10) of the first match
MarkerCode(chunk, c) ==
  LET i == CHOOSE i \in 1..Len(chunk) :
             /\ chunk[i][1] = "marker" /\ chunk[i][2] = c
             /\ \A j \in 1..(i - 1) : ~(chunk[j][1] = "marker" /\ chunk[j][2] = c)
  IN chunk[i][3]

\* command.output.join('')
RECURSIVE Flatten(_)
Flatten(chunks) ==
  IF chunks = <<>> THEN <<>> ELSE Head(chunks) \o Flatten(Tail(chunks))

\* checkForCommandCompletion(s, chunk): every registered command of the
\* session collects the chunk; one whose marker is in the chunk is removed
\* and resolved with the parsed code and the joined output.
Deliver(s, chunk) ==
  LET ps   == PendingOf(s)
      hit  == {c \in ps : HasMarker(chunk, c)}
      out2 == [c \in MarkerCmds |-> IF c \in ps THEN Append(cOut[c], chunk) ELSE cOut[c]]
  IN
  /\ cOut' = [c \in MarkerCmds |-> IF c \in hit THEN <<>> ELSE out2[c]]
  /\ pActive' = pActive \ hit
  /\ cFut' = [c \in MarkerCmds |-> IF c \in hit THEN Settle(cFut[c], "resolved") ELSE cFut[c]]
  /\ cRes' = [c \in MarkerCmds |->
                IF c \in hit /\ cFut[c] = "pending"
                  THEN [exitCode |-> MarkerCode(chunk, c), output |-> Flatten(out2[c])]
                  ELSE cRes[c]]
  /\ cSettles' = [c \in MarkerCmds |-> IF c \in hit THEN cSettles[c] + 1 ELSE cSettles[c]]

\* wrapCommandForShell, executed by the shell for a command that terminates
\* with the given code: the codes the emitted marker line may carry (none:
\* no marker line).  sh/bash/zsh run the echo only after a successful
\* command; cmd expands %ERRORLEVEL% when it reads the line.
MarkerCodes(sh, code) ==
  CASE sh = "posix" -> IF code = 0 THEN {0} ELSE {}
    [] sh = "powershell" -> {code}
    [] sh = "cmd" -> ShellExitCodes

\* Variant in which the timer callback never finds the registration.
Expires_Never(c, active) == FALSE

\* The timer callback's test activeCommands.has(marker).
Expires(c, active) == c \in active

\* Variant in which the exit handler leaves the entry in the index.
IndexAtExit_Kept(idx, s) == idx

\* ptys.delete(id) of the exit handler, before the consumer's onExit.
IndexAtExit(idx, s) == idx \ {s}

\* create: spawn the shell and store the entry under a fresh id.
CreatePty(s) ==
  /\ pProc[s] = "none"
  /\ \A t \in Sessions : t < s => pProc[t] # "none"
  /\ pProc' = [pProc EXCEPT ![s] = "alive"]
  /\ pIndex' = pIndex \cup {s}
  /\ UNCHANGED <<pKills, pIo, pExits, pSeen, pActive, cSess, cFut, cWhy, cRes, cOut,
                 cTimer, cSettles, cRun, cMark>>
  /\ UNCHANGED <<runnerVars, installVars, invokeVars, utilVars>>

\* write(id, data)
WritePty(s) ==
  /\ pIo' = IF Found(s, pIndex) THEN "write" ELSE pIo
  /\ UNCHANGED <<pIndex, pProc, pKills, pExits, pSeen, pActive, cSess, cFut, cWhy, cRes,
                 cOut, cTimer, cSettles, cRun, cMark>>
  /\ UNCHANGED <<runnerVars, installVars, invokeVars, utilVars>>

\* resize(id, cols, rows)
ResizePty(s) ==
  /\ pIo' = IF Found(s, pIndex) THEN "resize" ELSE pIo
  /\ UNCHANGED <<pIndex, pProc, pKills, pExits, pSeen, pActive, cSess, cFut, cWhy, cRes,
                 cOut, cTimer, cSettles, cRun, cMark>>
  /\ UNCHANGED <<runnerVars, installVars, invokeVars, utilVars>>

\* dispose(id): reject the registered commands of the session; then, if the
\* id is in the index, kill the process and delete the entry.
DisposePty(s) ==
  /\ Reject(PendingOf(s), "PTY was disposed")
  /\ pKills' = IF Found(s, pIndex) THEN [pKills EXCEPT ![s] = @ + 1] ELSE pKills
  /\ pIndex' = pIndex \ {s}
  /\ UNCHANGED <<pProc, pIo, pExits, pSeen, cSess, cRes, cTimer, cRun, cMark>>
  /\ UNCHANGED <<runnerVars, installVars, invokeVars, utilVars>>

\* Variant of teardown's loop that visits no session.
TeardownTargets_None(idx) == {}

\* The ids teardown's loop disposes: the keys of the index (an entry
\* deleted by the loop is the one just visited).
TeardownTargets(idx) == idx

\* teardown(): reject every registered command, dispose every session.
TeardownPty ==
  /\ Reject(pActive, "PTY manager was torn down")
  /\ pKills' = [s \in Sessions |->
                  IF s \in TeardownTargets(pIndex) /\ Found(s, pIndex)
                    THEN pKills[s] + 1 ELSE pKills[s]]
  /\ pIndex' = pIndex \ TeardownTargets(pIndex)
  /\ UNCHANGED <<pProc, pIo, pExits, pSeen, cSess, cRes, cTimer, cRun, cMark>>
  /\ UNCHANGED <<runnerVars, installVars, invokeVars, utilVars>>

\* The exit notification of the process of session s: reject its registered
\* commands, delete the entry, then invoke the consumer's onExit.  The
\* commands the shell was running are over with it.
ExitPty(s) ==
  /\ pProc[s] = "alive"
  /\ pProc' = [pProc EXCEPT ![s] = "exited"]
  /\ Reject(PendingOf(s), "Process exited before command completed")
  /\ pIndex' = IndexAtExit(pIndex, s)
  /\ pExits' = [pExits EXCEPT ![s] = @ + 1]
  /\ pSeen' = [pSeen EXCEPT ![s] = s \in IndexAtExit(pIndex, s)]
  /\ cRun' = [c \in MarkerCmds |-> IF cSess[c] = s THEN "finished" ELSE cRun[c]]
  /\ cMark' = [c \in MarkerCmds |-> IF cSess[c] = s THEN NoCode ELSE cMark[c]]
  /\ UNCHANGED <<pKills, pIo, cSess, cRes, cTimer>>
  /\ UNCHANGED <<runnerVars, installVars, invokeVars, utilVars>>

\* runCommand(id, command, {timeout}): PtyNotFound for an id not in the
\* index; otherwise register the command under a fresh marker, write the
\* wrapped command to the shell and arm the timer if a timeout was given.
RunCommandPty(s, c) ==
  /\ cFut[c] = "none"
  /\ \A d \in MarkerCmds : d < c => cFut[d] # "none"
  /\ IF ~Found(s, pIndex)
       THEN UNCHANGED <<pActive, cSess, cFut, cTimer, cRun>>
       ELSE /\ pActive' = pActive \cup {c}
            /\ cSess' = [cSess EXCEPT ![c] = s]
            /\ cFut' = [cFut EXCEPT ![c] = "pending"]
            /\ cRun' = [cRun EXCEPT ![c] = "running"]
            /\ \E timed \in BOOLEAN :
                 cTimer' = [cTimer EXCEPT ![c] = timed]
  /\ UNCHANGED <<pIndex, pProc, pKills, pIo, pExits, pSeen, cWhy, cRes, cOut, cSettles, cMark>>
  /\ UNCHANGED <<runnerVars, installVars, invokeVars, utilVars>>

\* The shell of a session executes the lines written to it one after the
\* other: the wrapped command of c runs once those written before it are over.
ShellTurn(c) ==
  \A d \in MarkerCmds : (d < c /\ cSess[d] = cSess[c]) => cRun[d] = "finished"

\* The running command of c prints ordinary output.
ShellOut(c) ==
  /\ cRun[c] = "running"
  /\ ShellTurn(c)
  /\ pProc[cSess[c]] = "alive"
  /\ \A d \in PendingOf(cSess[c]) : Len(cOut[d]) < MaxOuts
  /\ Deliver(cSess[c], <<OutPiece>>)
  /\ UNCHANGED <<pIndex, pProc, pKills, pIo, pExits, pSeen, cSess, cWhy, cTimer, cRun, cMark>>
  /\ UNCHANGED <<runnerVars, installVars, invokeVars, utilVars>>

\* The command of c, wrapped in the syntax of shell sh, terminates with a
\* code and the shell executes the rest of the wrapper; a marker line
\* arrives in one chunk, or its digits arrive in a later chunk.
ShellFinishWith(c, sh, code) ==
  /\ cRun[c] = "running"
  /\ ShellTurn(c)
  /\ pProc[cSess[c]] = "alive"
  /\ IF MarkerCodes(sh, code) = {}
       THEN /\ cRun' = [cRun EXCEPT ![c] = "finished"]
            /\ UNCHANGED <<cMark, cOut, pActive, cFut, cRes, cSettles>>
       ELSE \E m \in MarkerCodes(sh, code), split \in BOOLEAN :
              IF split
                THEN /\ cMark' = [cMark EXCEPT ![c] = m]
                     /\ cRun' = [cRun EXCEPT ![c] = "emitting"]
                     /\ Deliver(cSess[c], <<HeadPiece(c)>>)
                ELSE /\ cRun' = [cRun EXCEPT ![c] = "finished"]
                     /\ Deliver(cSess[c], <<MarkPiece(c, m)>>)
                     /\ UNCHANGED cMark
  /\ UNCHANGED <<pIndex, pProc, pKills, pIo, pExits, pSeen, cSess, cWhy, cTimer>>
  /\ UNCHANGED <<runnerVars, installVars, invokeVars, utilVars>>

ShellFinish(c) == \E sh \in Shells, code \in ShellExitCodes : ShellFinishWith(c, sh, code)

\* The digits of a marker line whose first part arrived in an earlier chunk.
ShellTail(c) ==
  /\ cRun[c] = "emitting"
  /\ pProc[cSess[c]] = "alive"
  /\ cRun' = [cRun EXCEPT ![c] = "finished"]
  /\ cMark' = [cMark EXCEPT ![c] = NoCode]
  /\ Deliver(cSess[c], <<TailPiece(cMark[c])>>)
  /\ UNCHANGED <<pIndex, pProc, pKills, pIo, pExits, pSeen, cSess, cWhy, cTimer>>
  /\ UNCHANGED <<runnerVars, installVars, invokeVars, utilVars>>

\* The timeout timer of command c fires: if the command is still
\* registered, delete the registration and reject.
TimerFires(c) ==
  /\ cTimer[c]
  /\ cTimer' = [cTimer EXCEPT ![c] = FALSE]
  /\ IF Expires(c, pActive)
       THEN Reject({c}, "Command timed out")
       ELSE UNCHANGED <<pActive, cFut, cWhy, cSettles, cOut>>
  /\ UNCHANGED <<pIndex, pProc, pKills, pIo, pExits, pSeen, cSess, cRes, cRun, cMark>>
  /\ UNCHANGED <<runnerVars, installVars, invokeVars, utilVars>>

PtyNext ==
  \/ \E s \in Sessions : CreatePty(s)
  \/ \E s \in Sessions : WritePty(s)
  \/ \E s \in Sessions : ResizePty(s)
  \/ \E s \in Sessions : DisposePty(s)
  \/ TeardownPty
  \/ \E s \in Sessions : ExitPty(s)
  \/ \E s \in Sessions, c \in MarkerCmds : RunCommandPty(s, c)
  \/ \E c \in MarkerCmds : ShellOut(c)
  \/ \E c \in MarkerCmds : ShellFinish(c)
  \/ \E c \in MarkerCmds : ShellTail(c)
  \/ \E c \in MarkerCmds : TimerFires(c)

\* ------------------------------------------------------------------------
\* Package selection of startInstall
\* ------------------------------------------------------------------------

HostPlatforms == {"win32", "linux", "darwin"}

\* The GpuType values, and a value outside the type
GpuTypes == {"nvidia<30xx", "nvidia>=30xx", "amd", "nogpu", "unknown"}

TorchPlatforms == {"cuda", "rocm", "cpu"}

NoSel == [torch |-> "", xformers |-> FALSE, url |-> <<>>]
NoArgs == [specifier |-> "", index |-> <<>>]

\* No --index argument
NoIndex == <<>>

\* The pinned index url of a host platform and torch platform
IndexUrl(platform, torch) == <<platform, torch>>

\* getTorchPlatform(gpuType) on a host platform
getTorchPlatform(platform, gpu) ==
  IF platform = "darwin" THEN "cpu"
  ELSE CASE gpu = "amd" -> "rocm"
         [] gpu \in {"nvidia<30xx", "nvidia>=30xx"} -> "cuda"
         [] gpu = "nogpu" -> "cpu"
         [] OTHER -> "cuda"

\* withXformers
WithXformers(gpu) == gpu = "nvidia<30xx"

\* invokeaiPackageSpecifier
PackageSpecifier(xformers) == IF xformers THEN "invokeai[xformers]" ELSE "invokeai"

\* pins.torchIndexUrl[systemPlatform][torchPlatform]: the url, or undefined
\* (NoIndex) when the pins name none.  pins is the set of torch platforms
\* for which the pins of the host platform name an index.
TorchIndexUrl(platform, pins, torch) ==
  IF torch \in pins THEN IndexUrl(platform, torch) ELSE NoIndex

PkgInit ==
  /\ pkIn \in [platform : HostPlatforms, gpu : GpuTypes, pins : SUBSET TorchPlatforms]
  /\ pkSel = NoSel
  /\ pkArgs = NoArgs

\* Package selection while another component is being exercised.
PkgParked ==
  /\ pkIn = [platform |-> "linux", gpu |-> "nogpu", pins |-> {}]
  /\ pkSel = NoSel
  /\ pkArgs = NoArgs

\* startInstall, before the pins are awaited: the torch platform and the
\* package specifier; after them: the index url.
ResolvePackage ==
  /\ pkSel = NoSel
  /\ LET torch == getTorchPlatform(pkIn.platform, pkIn.gpu)
     IN pkSel' = [torch |-> torch,
                  xformers |-> WithXformers(pkIn.gpu),
                  url |-> TorchIndexUrl(pkIn.platform, pkIn.pins, torch)]
  /\ UNCHANGED <<pkIn, pkArgs>>
  /\ UNCHANGED <<runnerVars, installVars, invokeVars, ptyVars, bridgeVars, histVars, consoleVars>>

\* The arguments of the package-install command: the specifier, and the
\* index if there is one.
BuildInstallArgs ==
  /\ pkSel # NoSel
  /\ pkArgs = NoArgs
  /\ pkArgs' = [specifier |-> PackageSpecifier(pkSel.xformers),
                index |-> IF pkSel.url # NoIndex THEN pkSel.url ELSE NoIndex]
  /\ UNCHANGED <<pkIn, pkSel>>
  /\ UNCHANGED <<runnerVars, installVars, invokeVars, ptyVars, bridgeVars, histVars, consoleVars>>

PkgNext == ResolvePackage \/ BuildInstallArgs

\* ------------------------------------------------------------------------
\* Status bridge: updateStatus pushes, the renderer listens and polls
\* ------------------------------------------------------------------------

Polls == 1..MaxPolls
Roles == {"install-process", "invoke-process"}

\* Status types a manager publishes through updateStatus; the bridge only
\* tells equal snapshots from different ones, so three types of each manager
\* are kept.
StatusTypes(role) ==
  IF role = "install-process"
    THEN {"starting", "installing", "error"}
    ELSE {"starting", "running", "error"}

NoStatus == <<"none", 0>>

\* objectEquals(oldStatus, newStatus): deep equality of two snapshots
ObjectEquals(a, b) == a[1] = b[1] /\ a[2] = b[2]

\* What the store holds when a poll returns: untouched if the fetched
\* status equals the one read when the poll began, else the fetched one.
PollResult(old, new, store) == IF ObjectEquals(old, new) THEN store ELSE new

BridgeInit ==
  /\ sRole \in Roles
  /\ sClock = 0
  /\ sMain = <<"uninitialized", 0>>
  /\ sUpdates = 0
  /\ sChan = <<>>
  /\ sStore \in {<<"uninitialized", t>> : t \in {0, 1}}
  /\ sPoll = [p \in Polls |-> "idle"]
  /\ sOld = [p \in Polls |-> NoStatus]
  /\ sFresh = {}

BridgeParked ==
  /\ sRole = "none"
  /\ sClock = 0
  /\ sMain = NoStatus
  /\ sUpdates = 0
  /\ sChan = <<>>
  /\ sStore = NoStatus
  /\ sPoll = <<>>
  /\ sOld = <<>>
  /\ sFresh = {}

\* updateStatus: the status is stamped with Date.now(), which may or may not
\* have advanced since the last call, and pushed; sendToWindow drops the
\* push when there is no window.
UpdateStatus(type, tick, delivered) ==
  /\ sUpdates < MaxUpdates
  /\ sUpdates' = sUpdates + 1
  /\ sClock' = IF tick THEN sClock + 1 ELSE sClock
  /\ sMain' = <<type, sClock'>>
  /\ sChan' = IF delivered THEN Append(sChan, [kind |-> "push", poll |-> None, status |-> sMain']) ELSE sChan
  /\ sFresh' = IF sMain' = sMain THEN sFresh ELSE {}
  /\ UNCHANGED <<sRole, sStore, sPoll, sOld>>
  /\ UNCHANGED <<runnerVars, installVars, invokeVars, ptyVars, pkgVars, histVars, consoleVars>>

\* The interval timer fires: the poll reads the store and asks for the status.
PollStarted(p) ==
  /\ sPoll[p] = "idle"
  /\ \A q \in Polls : q < p => sPoll[q] # "idle"
  /\ sPoll' = [sPoll EXCEPT ![p] = "asked"]
  /\ sOld' = [sOld EXCEPT ![p] = sStore]
  /\ sFresh' = sFresh \cup {p}
  /\ UNCHANGED <<sRole, sMain, sClock, sUpdates, sChan, sStore>>
  /\ UNCHANGED <<runnerVars, installVars, invokeVars, ptyVars, pkgVars, histVars, consoleVars>>

\* The get-status handler answers the request of poll p with this.status.
GetStatusHandled(p) ==
  /\ sPoll[p] = "asked"
  /\ \A q \in Polls : q < p => sPoll[q] # "asked"
  /\ sPoll' = [sPoll EXCEPT ![p] = "answered"]
  /\ sChan' = Append(sChan, [kind |-> "reply", poll |-> p, status |-> sMain])
  /\ UNCHANGED <<sRole, sMain, sClock, sUpdates, sStore, sOld, sFresh>>
  /\ UNCHANGED <<runnerVars, installVars, invokeVars, ptyVars, pkgVars, histVars, consoleVars>>

\* The renderer receives a pushed status: the listener sets the store.
PushReceived ==
  /\ sChan # <<>>
  /\ Head(sChan).kind = "push"
  /\ sStore' = Head(sChan).status
  /\ sChan' = Tail(sChan)
  /\ UNCHANGED <<sRole, sMain, sClock, sUpdates, sPoll, sOld, sFresh>>
  /\ UNCHANGED <<runnerVars, installVars, invokeVars, ptyVars, pkgVars, histVars, consoleVars>>

\* The renderer receives the answer of poll p: the poll resumes and returns.
PollCompleted(p) ==
  /\ sChan # <<>>
  /\ Head(sChan).kind = "reply"
  /\ Head(sChan).poll = p
  /\ sStore' = PollResult(sOld[p], Head(sChan).status, sStore)
  /\ sChan' = Tail(sChan)
  /\ sPoll' = [sPoll EXCEPT ![p] = "done"]
  /\ sOld' = [sOld EXCEPT ![p] = NoStatus]
  /\ UNCHANGED <<sRole, sMain, sClock, sUpdates, sFresh>>
  /\ UNCHANGED <<runnerVars, installVars, invokeVars, ptyVars, pkgVars, histVars, consoleVars>>

BridgeNext ==
  \/ \E type \in StatusTypes(sRole), tick \in BOOLEAN, delivered \in BOOLEAN :
       UpdateStatus(type, tick, delivered)
  \/ \E p \in Polls : PollStarted(p)
  \/ \E p \in Polls : GetStatusHandled(p)
  \/ PushReceived
  \/ \E p \in Polls : PollCompleted(p)

\* ------------------------------------------------------------------------
\* Output path of a session: AnsiSequenceBuffer and SlidingBuffer
\* ------------------------------------------------------------------------

\* Characters of the output: ESC, the CSI introducer, a parameter byte and a
\* letter (a final byte inside a sequence, plain text outside).
Esc == "E"
Chars == {Esc, "[", "1", "m"}

\* The data events of the process: one or two characters each.
DataChunks == {<<a>> : a \in Chars} \cup {<<a, b>> : a \in Chars, b \in Chars}

\* Longest suffix the escape-sequence buffer withholds.
MaxCarry == 3

\* Reading s from position i: where the sequence begins that is still in
\* progress at the end of s, 0 if there is none.  ESC followed by [ begins a
\* control sequence, which ends at the first byte that is not a parameter;
\* ESC followed by any other character is a sequence of two characters.
RECURSIVE InProgressFrom(_, _)
InProgressFrom(s, i) ==
  IF i > Len(s) THEN 0
  ELSE IF s[i] # Esc THEN InProgressFrom(s, i + 1)
  ELSE IF i = Len(s) THEN i
  ELSE IF s[i + 1] # "[" THEN InProgressFrom(s, i + 2)
  ELSE LET ends == {j \in (i + 2)..Len(s) : s[j] # "1"}
       IN IF ends = {}
            THEN i
            ELSE InProgressFrom(s, (CHOOSE j \in ends : \A k \in ends : j <= k) + 1)

\* Where the withheld suffix of data begins, 0 if nothing is withheld: at the
\* sequence in progress, unless it is longer than MaxCarry; a longer one
\* is flushed as literal text.
WithheldFrom(data) ==
  LET i == InProgressFrom(data, 1)
  IN IF i # 0 /\ Len(data) - i + 1 <= MaxCarry THEN i ELSE 0

\* Variant of append that returns the whole data and keeps the suffix too.
AnsiAppend_KeepAll(carry, chunk) ==
  LET data == carry \o chunk
      i == WithheldFrom(data)
  IN [complete |-> data,
      hasIncomplete |-> i # 0,
      carry |-> IF i = 0 THEN <<>> ELSE SubSeq(data, i, Len(data))]

\* AnsiSequenceBuffer.append(chunk) on a buffer carrying carry: the result
\* and the new carry.
AnsiAppend(carry, chunk) ==
  LET data == carry \o chunk
      i == WithheldFrom(data)
  IN [complete |-> IF i = 0 THEN data ELSE SubSeq(data, 1, i - 1),
      hasIncomplete |-> i # 0,
      carry |-> IF i = 0 THEN <<>> ELSE SubSeq(data, i, Len(data))]

\* Variant of push that drops the new item when the buffer is full.
SlidingPush_DropNew(items, item) ==
  IF Len(items) >= MaxHistory THEN items ELSE Append(items, item)

\* SlidingBuffer.push(item): the oldest item is evicted when the buffer is full.
SlidingPush(items, item) ==
  IF Len(items) >= MaxHistory THEN Append(Tail(items), item) ELSE Append(items, item)

\* SlidingBuffer.get(): the items in insertion order
SlidingGet(items) == items

HistInit ==
  /\ dOpen = TRUE
  /\ dChunks = 0
  /\ aCarry = <<>>
  /\ aIn = <<>>
  /\ aOut = <<>>
  /\ hItems = <<>>
  /\ hPushed = <<>>

HistParked ==
  /\ dOpen = FALSE
  /\ dChunks = 0
  /\ aCarry = <<>>
  /\ aIn = <<>>
  /\ aOut = <<>>
  /\ hItems = <<>>
  /\ hPushed = <<>>

\* The process emits chunk: it is appended to the escape-sequence buffer and,
\* when nothing is withheld, the complete text is pushed onto the history.
OnData(chunk) ==
  /\ dOpen
  /\ dChunks < MaxChunks
  /\ dChunks' = dChunks + 1
  /\ LET result == AnsiAppend(aCarry, chunk)
     IN /\ aCarry' = result.carry
        /\ aIn' = aIn \o chunk
        /\ aOut' = aOut \o result.complete
        /\ IF ~result.hasIncomplete
             THEN /\ hItems' = SlidingPush(hItems, result.complete)
                  /\ hPushed' = Append(hPushed, result.complete)
             ELSE UNCHANGED <<hItems, hPushed>>
  /\ UNCHANGED dOpen
  /\ UNCHANGED <<runnerVars, installVars, invokeVars, ptyVars, pkgVars, bridgeVars, consoleVars>>

\* The process exits: both buffers are cleared.
OnExit ==
  /\ dOpen
  /\ dOpen' = FALSE
  /\ aCarry' = <<>>
  /\ hItems' = <<>>
  /\ hPushed' = <<>>
  /\ UNCHANGED <<dChunks, aIn, aOut>>
  /\ UNCHANGED <<runnerVars, installVars, invokeVars, ptyVars, pkgVars, bridgeVars, consoleVars>>

HistNext ==
  \/ \E chunk \in DataChunks : OnData(chunk)
  \/ OnExit

\* ------------------------------------------------------------------------
\* ConsoleManager: the singleton interactive console
\* ------------------------------------------------------------------------

\* createConsole calls in call order; the console of call c has id c.
Consoles == 1..MaxConsoles

\* Session ids a terminal:write or terminal:resize request may carry: the id
\* of a console, or None for one that never existed.
RequestIds == Consoles \cup {None}

\* The process of the console entry receives input what.
Received(input, entry, what) == [input EXCEPT ![entry] = @ \cup {what}]

\* ConsoleManager.dispose(): kill the process of the entry, if any
DisposedProcs(procs, entry) ==
  IF entry = None THEN procs ELSE [procs EXCEPT ![entry] = "killed"]

ConsoleInit ==
  /\ consoleEntry = None
  /\ kProc = [c \in Consoles |-> "none"]
  /\ kPc = [c \in Consoles |-> "idle"]
  /\ kInput = [c \in Consoles |-> {}]

ConsoleParked ==
  /\ consoleEntry = None
  /\ kProc = <<>>
  /\ kPc = <<>>
  /\ kInput = <<>>

\* createConsole call c: dispose the existing console, spawn the shell,
\* record the entry, write the PATH command to the entry; with a cwd the
\* call then awaits the installation details.
CreateConsole(c, withCwd) ==
  /\ kPc[c] = "idle"
  /\ \A b \in Consoles : b < c => kPc[b] # "idle"
  /\ kProc' = [DisposedProcs(kProc, consoleEntry) EXCEPT ![c] = "alive"]
  /\ consoleEntry' = c
  /\ kInput' = Received(kInput, c, <<c, "path">>)
  /\ kPc' = [kPc EXCEPT ![c] = IF withCwd THEN "await" ELSE "done"]
  /\ UNCHANGED <<runnerVars, installVars, invokeVars, ptyVars, pkgVars, bridgeVars, histVars>>

\* The installation details of call c arrive: the activation command and the
\* cd command are written to this.consoleEntry.process; with no entry the
\* first write throws.
DetailsReturned(c, isInstalled, isDirectory) ==
  /\ kPc[c] = "await"
  /\ LET cmds == (IF isInstalled THEN {<<c, "activate">>} ELSE {})
                   \cup (IF isDirectory THEN {<<c, "cd">>} ELSE {})
     IN IF cmds = {}
          THEN /\ kPc' = [kPc EXCEPT ![c] = "done"]
               /\ UNCHANGED kInput
          ELSE IF consoleEntry = None
            THEN /\ kPc' = [kPc EXCEPT ![c] = "thrown"]
                 /\ UNCHANGED kInput
            ELSE /\ kPc' = [kPc EXCEPT ![c] = "done"]
                 /\ kInput' = [kInput EXCEPT ![consoleEntry] = @ \cup cmds]
  /\ UNCHANGED <<consoleEntry, kProc>>
  /\ UNCHANGED <<runnerVars, installVars, invokeVars, ptyVars, pkgVars, bridgeVars, histVars>>

\* terminal:dispose with a console: kill it and forget the entry.
DisposeConsole ==
  /\ consoleEntry # None
  /\ kProc' = DisposedProcs(kProc, consoleEntry)
  /\ consoleEntry' = None
  /\ UNCHANGED <<kPc, kInput>>
  /\ UNCHANGED <<runnerVars, installVars, invokeVars, ptyVars, pkgVars, bridgeVars, histVars>>

\* The exit notification of the shell of console id.
ConsoleExit(id) ==
  /\ kProc[id] \in {"alive", "killed"}
  /\ kProc' = [kProc EXCEPT ![id] = "exited"]
  /\ consoleEntry' = IF consoleEntry = id THEN None ELSE consoleEntry
  /\ UNCHANGED <<kPc, kInput>>
  /\ UNCHANGED <<runnerVars, installVars, invokeVars, ptyVars, pkgVars, bridgeVars, histVars>>

\* A terminal:write request carrying session id: the handler calls
\* consoleManager.write(data), which writes to the entry if there is one.
TerminalWrite(id) ==
  /\ consoleEntry # None
  /\ kInput' = Received(kInput, consoleEntry, <<None, "write">>)
  /\ UNCHANGED <<consoleEntry, kProc, kPc>>
  /\ UNCHANGED <<runnerVars, installVars, invokeVars, ptyVars, pkgVars, bridgeVars, histVars>>

\* A terminal:resize request carrying session id.
TerminalResize(id) ==
  /\ consoleEntry # None
  /\ kInput' = Received(kInput, consoleEntry, <<None, "resize">>)
  /\ UNCHANGED <<consoleEntry, kProc, kPc>>
  /\ UNCHANGED <<runnerVars, installVars, invokeVars, ptyVars, pkgVars, bridgeVars, histVars>>

ConsoleNext ==
  \/ \E c \in Consoles, withCwd \in BOOLEAN : CreateConsole(c, withCwd)
  \/ \E c \in Consoles, isInstalled \in BOOLEAN, isDirectory \in BOOLEAN :
       DetailsReturned(c, isInstalled, isDirectory)
  \/ DisposeConsole
  \/ \E id \in Consoles : ConsoleExit(id)
  \/ \E id \in RequestIds : TerminalWrite(id)
  \/ \E id \in RequestIds : TerminalResize(id)

\* Every component of this section while another one is being exercised.
UtilParked == PkgParked /\ BridgeParked /\ HistParked /\ ConsoleParked

\* ------------------------------------------------------------------------
\* Specifications
\* ------------------------------------------------------------------------

\* An install manager on a fresh runner, the supervisor not started.
InitInstall == RunnerParked /\ InstallInit /\ InvokeParked /\ PtyParked /\ UtilParked

SpecInstall == InitInstall /\ [][InstallNext]_vars

\* A supervisor, the install manager and the standalone runner unused.
InitInvoke == RunnerParked /\ InstallParked /\ InvokeInit /\ PtyParked /\ UtilParked

SpecInvoke == InitInvoke /\ [][InvokeNext]_vars

\* The exit notification of a process that was killed through the
\* PtyManager.
KilledExit(k) == vKilled[k] /\ AppExit(k)

\* The supervisor with what its environment guarantees: the awaited probes
\* of a start complete, and a killed process exits and its exit notification
\* is delivered.
SpecInvokeLive ==
  /\ InitInvoke
  /\ [][InvokeNext]_vars
  /\ \A k \in Starts : WF_vars(InvokeProbed(k)) /\ WF_vars(KilledExit(k))

\* A PtyManager, the other components unused.
InitPty == RunnerParked /\ InstallParked /\ InvokeParked /\ PtyInit /\ UtilParked

SpecPty == InitPty /\ [][PtyNext]_vars

\* The package selection alone
InitPkg == RunnerParked /\ InstallParked /\ InvokeParked /\ PtyParked /\ PkgInit /\ BridgeParked /\ HistParked /\ ConsoleParked

SpecPkg == InitPkg /\ [][PkgNext]_vars

\* The status bridge of one manager alone
InitBridge == RunnerParked /\ InstallParked /\ InvokeParked /\ PtyParked /\ PkgParked /\ BridgeInit /\ HistParked /\ ConsoleParked

SpecBridge == InitBridge /\ [][BridgeNext]_vars

\* The output path of one session alone
InitHist == RunnerParked /\ InstallParked /\ InvokeParked /\ PtyParked /\ PkgParked /\ BridgeParked /\ HistInit /\ ConsoleParked

SpecHist == InitHist /\ [][HistNext]_vars

\* The console manager alone
InitConsole == RunnerParked /\ InstallParked /\ InvokeParked /\ PtyParked /\ PkgParked /\ BridgeParked /\ HistParked /\ ConsoleInit

SpecConsole == InitConsole /\ [][ConsoleNext]_vars

\* ------------------------------------------------------------------------
\* Properties of the CommandRunner
\* ------------------------------------------------------------------------

\* A standalone runner, the install manager and the supervisor unused.
InitRunner == RunnerInit /\ InstallParked /\ InvokeParked /\ PtyParked /\ UtilParked

SpecRunner == InitRunner /\ [][RunnerNext]_vars

\* The processes of the runner that are alive and were issued no termination.
RunnerLive == {c \in Cmds : procState[c] = "alive" /\ procKilled[c] = "no"}

\* C1: whenever the process of a command B is spawned, the promise of every
\* other command has settled (no earlier command is still pending).
C1_SettledBeforeSpawn ==
  [][\A b \in Cmds :
       (procState[b] # "alive" /\ procState'[b] = "alive")
         => \A a \in Cmds \ {b} : future'[a] # "pending"]_vars

\* C4: at most one process of the role is alive without having been issued
\* a termination.
C4_OneLiveSession == Cardinality(RunnerLive) <= 1


\* The command of the latest runCommand call, None before the first call.
LatestCmd ==
  IF \A c \in Cmds : callPc[c] = "idle"
    THEN None
    ELSE CHOOSE c \in Cmds : callPc[c] # "idle" /\ \A d \in Cmds : callPc[d] # "idle" => d <= c

\* The process of the latest command has been spawned, has not exited and
\* was issued no termination through the runner.
LatestRuns ==
  /\ LatestCmd # None
  /\ procState[LatestCmd] = "alive"
  /\ procKilled[LatestCmd] = "no"

\* C30: isRunning() is true exactly while the process of the most recently
\* started command has been spawned and has neither exited nor been killed
\* through the runner; and the exit notification of an earlier, replaced
\* command leaves the runner's record of the newer command as it is.
C30_IsRunningTracksLatest ==
  [][/\ IsRunning' <=> LatestRuns'
     /\ \A v \in Cmds :
          (ProcExit(v) /\ currentEntry # None /\ currentEntry # v /\ Waiters(v) = {})
            => currentEntry' = currentEntry]_vars

\* ------------------------------------------------------------------------
\* Properties of the install workflow
\* ------------------------------------------------------------------------

TerminalInstall == {"completed", "error", "canceled"}

\* Run r returns or throws in this step.
Ends(r) == iPc[r] \notin Ended /\ iPc'[r] \in Ended

\* Run r publishes a status that changes the status type in this step.
PublishesNew(r) == iPc'[r] # iPc[r] /\ iStatus' # iStatus

\* C2: once a cancellation has been accepted for a run, that run spawns no
\* further step process.
C2_NoSpawnAfterCancel ==
  [][\A r \in Runs : r \in cancelSeen => spawned'[r] \subseteq spawned[r]]_vars

\* C3: once canceling has been published for a run, the only status that
\* run publishes afterwards is canceled.
C3_OnlyCanceledAfterCanceling ==
  [][\A r \in Runs :
       (r \in cancelSeen /\ PublishesNew(r)) => iStatus' = "canceled"]_vars

\* C8: every startInstall invocation ends with a terminal status published:
\* when an invocation returns or is left by a fault, the status is terminal.
C8_EndsTerminal ==
  [][\A r \in Runs : Ends(r) => iStatus' \in TerminalInstall]_vars

\* C9: in an install into a fresh directory in which every step succeeded
\* (interpreter, environment and package processes spawned in turn),
\* completed is published only after the first-run marker has been written.
C9_MarkerBeforeCompleted ==
  [][\A r \in Runs :
       (Ends(r) /\ iStatus' = "completed" /\ det[r] = NoPy
          /\ spawned[r] = {"python", "venv", "app"})
         => marker' = "present"]_vars

\* The existing installation seen by run r has the major and minor version
\* of the pin.
SameMajorMinor(r) ==
  /\ det[r] # NoPy
  /\ <<det[r][1], det[r][2]>> = <<pyPin[r][1], pyPin[r][2]>>

\* Run r is past the interpreter-install step.
PastInterpreterStep(r) ==
  \/ iPc[r] \in {"venvProbe", "venvRm"}
  \/ spawned[r] \cap {"venv", "app"} # {}

\* C10: an interpreter-install process is spawned only if repair is
\* requested or the existing interpreter's major/minor differs from the pin
\* (or nothing is installed), and a run that got past the step spawned it
\* exactly in those cases.
C10_InterpreterStepGate ==
  \A r \in Runs :
    /\ "python" \in spawned[r] => (repair[r] \/ ~SameMajorMinor(r))
    /\ PastInterpreterStep(r) =>
         ("python" \in spawned[r] <=> (repair[r] \/ ~SameMajorMinor(r)))

\* C10 witness: a run over an installation with matching major.minor (other
\* patch level), without repair, installs the package having spawned no
\* interpreter install.
C10_Witness ==
  \E r \in Runs :
    /\ ~repair[r]
    /\ SameMajorMinor(r)
    /\ det[r] # pyPin[r]
    /\ iPc[r] = "wait"
    /\ iProc[r].step = "app"
    /\ "python" \notin spawned[r]

\* ------------------------------------------------------------------------
\* Properties of the InvokeManager
\* ------------------------------------------------------------------------

\* A render-process-gone step (of the referenced window or of an orphan).
RendererGone == WindowCrashed \/ OrphanCrashed

\* Some application process is alive and has reported its readiness.
AliveAfterReadiness == \E k \in Starts : vProc[k] = "alive" /\ matched[k]

\* The tracked process is alive and has reported its readiness.
TrackedAfterReadiness ==
  /\ currentPtyId # None
  /\ vProc[currentPtyId] = "alive"
  /\ matched[currentPtyId]

\* What the renderer-gone handler is to do: publish window-crashed, issue no
\* termination, keep the handle and the running data.
CrashHandled ==
  /\ vStatus' = "window-crashed"
  /\ vKilled' = vKilled
  /\ currentPtyId' = currentPtyId
  /\ vLast' = vLast

C6_ReadinessOnce ==
  [][\A k \in Starts :
       readies'[k] # readies[k]
         => /\ readies'[k] = 1
            /\ vStatus' = "running"
            /\ vLast'.url.host = AnyHost
                 => /\ vLast'.loopbackUrl = [host |-> LoopbackHost, port |-> vLast'.url.port]
                    /\ vLast'.lanUrl = [host |-> <<HostAddress>>, port |-> vLast'.url.port]]_vars

\* A run has made its readiness transition on a 0.0.0.0 URL and is running.
C6_Witness ==
  \E k \in Starts :
    /\ readies[k] = 1
    /\ vProc[k] = "alive"
    /\ vStatus = "running"
    /\ vLast.url.host = AnyHost
    /\ vLast.loopbackUrl.host = LoopbackHost

\* The exit was caused by a terminating signal.
BySignal(signal) == signal # NoSignal /\ signal # 0

\* C7: on every exit notification the status becomes exited if the exit code
\* is 0 or a terminating signal caused the exit, error otherwise (non-zero
\* code with no signal or signal number 0), and the window is closed.
C7_ExitClassified ==
  [][\A k \in Starts :
       (vProc[k] = "alive" /\ vProc'[k] = "exited")
         => /\ vStatus' = IF lastExit'.code = 0 \/ BySignal(lastExit'.signal)
                            THEN "exited" ELSE "error"
            /\ ~window']_vars

\* C11: a run that ends at a precondition check (target path, platform,
\* package-manager executable) publishes error and has spawned no process.
C11_PreconditionError ==
  [][\A r \in Runs :
       (iPc[r] \in {"locCheck", "uvCheck"} /\ Ends(r))
         => iStatus' = "error" /\ spawned[r] = {}]_vars

StepMessages == {StepMessage(st) : st \in {"python", "venv", "app"}}

\* The step process of run r exits with a non-zero code in this step.
StepExitsNonZero(r) == StepExitWith(r, 1)

\* A step process of run r fails to spawn in this step (no cancellation
\* requested): the run ends where it was about to spawn.
StepSpawnFails(r) ==
  /\ ~iCancel
  /\ Ends(r)
  /\ \/ iPc[r] \in {"python", "venvProbe", "venvRm"}
     \/ iPc[r] = "wait" /\ iProc[r].step = "venv" /\ StepExitWith(r, 0)

\* C12: when a step process of a run exits with a non-zero code or fails to
\* spawn and no cancellation has been requested, the run publishes error
\* with that step's message and the serialized cause, and returns with no
\* further step process.
C12_StepFailureIsError ==
  [][\A r \in Runs :
       (Ends(r) /\ ~iCancel /\ r \notin cancelSeen
          /\ (StepExitsNonZero(r) \/ StepSpawnFails(r)))
         => /\ iStatus' = "error"
            /\ iErr'.context
            /\ iErr'.message \in StepMessages
            /\ StepExitsNonZero(r) => iErr'.message = StepMessage(iProc[r].step)
            /\ iPc'[r] = "done"
            /\ iProc'[r] = NoProc]_vars

\* A failed interpreter install was published as an error with its cause,
\* no cancellation requested.
C12_Witness ==
  /\ iStatus = "error"
  /\ iErr = [message |-> "Failed to install Python", context |-> TRUE]
  /\ ~iCancel
  /\ \E r \in Runs : iPc[r] = "done"

\* C13: the application status changes to window-crashed only from running.
C13_CrashedOnlyFromRunning ==
  [][(vStatus' = "window-crashed" /\ vStatus # "window-crashed")
       => vStatus = "running"]_vars

\* The transitions of the install state machine, read generously: a new run
\* may start from any terminal status, a cancellation may be accepted in
\* starting, and a failed precondition leads from starting to error.
InstallTransitions ==
  {<<"uninitialized", "starting">>, <<"starting", "installing">>,
   <<"installing", "canceling">>, <<"canceling", "canceled">>,
   <<"installing", "completed">>, <<"installing", "error">>,
   <<"starting", "canceling">>, <<"starting", "error">>,
   <<"completed", "starting">>, <<"error", "starting">>, <<"canceled", "starting">>}

\* The transitions of the application state machine, read generously: a new
\* start from a terminal status, an exit or a failure from any live status,
\* window-crashed out of running and back by reopening.
InvokeTransitions ==
  {<<"uninitialized", "starting">>, <<"starting", "running">>,
   <<"running", "exiting">>, <<"exiting", "exited">>, <<"exiting", "error">>,
   <<"running", "window-crashed">>, <<"window-crashed", "running">>,
   <<"window-crashed", "exiting">>, <<"window-crashed", "exited">>,
   <<"window-crashed", "error">>,
   <<"starting", "error">>, <<"starting", "exiting">>, <<"starting", "exited">>,
   <<"running", "exited">>, <<"running", "error">>,
   <<"exited", "starting">>, <<"error", "starting">>}

\* C14: every change of the install status and of the application status is
\* a declared transition of its state machine.
C14_DeclaredTransitions ==
  [][/\ iStatus' # iStatus => <<iStatus, iStatus'>> \in InstallTransitions
     /\ vStatus' # vStatus => <<vStatus, vStatus'>> \in InvokeTransitions]_vars

\* ------------------------------------------------------------------------
\* Properties of the PtyManager
\* ------------------------------------------------------------------------

\* C15: a pending command whose session leaves the index in a step (dispose,
\* exit notification, teardown) is rejected in that step and its
\* registration is removed; a dispose rejects it with 'PTY was disposed'.
\* Hence no command is pending for a session that is gone.
C15_RejectedWhenSessionGone ==
  [][\A c \in MarkerCmds :
       (cFut[c] = "pending" /\ cSess[c] \notin pIndex')
         => /\ cSess[c] \in pIndex
            /\ cFut'[c] = "rejected"
            /\ c \notin pActive'
            /\ DisposePty(cSess[c]) => cWhy'[c] = "PTY was disposed"]_vars

\* A command was rejected by the dispose of its session.
C15_Witness ==
  \E c \in MarkerCmds :
    /\ cFut[c] = "rejected"
    /\ cWhy[c] = "PTY was disposed"
    /\ cSess[c] \notin pIndex
    /\ c \notin pActive

\* C16: a timer that fires while its command is registered rejects it with
\* 'Command timed out' and removes the registration; a timer that fires
\* after the command settled changes nothing; and a settled command keeps
\* its outcome whatever arrives later (a marker after expiry has no effect).
C16_TimeoutRejects ==
  [][\A c \in MarkerCmds :
       /\ (TimerFires(c) /\ c \in pActive)
            => /\ cFut'[c] = "rejected"
               /\ cWhy'[c] = "Command timed out"
               /\ c \notin pActive'
       /\ (TimerFires(c) /\ c \notin pActive)
            => UNCHANGED <<cFut, cWhy, cRes, pActive, cSettles>>
       /\ cFut[c] \in {"resolved", "rejected"}
            => /\ cFut'[c] = cFut[c]
               /\ cWhy'[c] = cWhy[c]
               /\ cRes'[c] = cRes[c]
               /\ cSettles'[c] = cSettles[c]]_vars

\* A command timed out and its wrapper finished afterwards.
C16_Witness ==
  \E c \in MarkerCmds :
    /\ cFut[c] = "rejected"
    /\ cWhy[c] = "Command timed out"
    /\ cRun[c] = "finished"
    /\ pProc[cSess[c]] = "alive"

\* The last piece of a marker line of command c arrives in this step.
MarkerLineDone(c) ==
  \/ ShellTail(c)
  \/ \E sh \in Shells, code \in ShellExitCodes :
       /\ MarkerCodes(sh, code) # {}
       /\ ShellFinishWith(c, sh, code)
       /\ cRun'[c] = "finished"

\* Sequence a is a prefix of sequence b.
IsPrefix(a, b) == Len(a) <= Len(b) /\ SubSeq(b, 1, Len(a)) = a

\* C17: when the marker line of a registered command has arrived in the
\* output of its session, the command is resolved, once, with the digits of
\* the line as exit code and with an output that starts with what was
\* collected before the line, and its registration is removed.
C17_MarkerResolves ==
  [][\A c \in MarkerCmds :
       (c \in pActive /\ MarkerLineDone(c))
         => /\ cFut'[c] = "resolved"
            /\ cSettles'[c] = 1
            /\ c \notin pActive'
            /\ cRes'[c].exitCode \in ShellExitCodes
            /\ ShellTail(c) => cRes'[c].exitCode = cMark[c]
            /\ IsPrefix(Flatten(cOut[c]), cRes'[c].output)]_vars

\* C18: when the wrapped command of a registered command terminates with a
\* non-zero code, the wrapper emits the marker line with that code (its
\* digits may still be on their way) and the command resolves with it.
C18_FailureResolves ==
  [][\A c \in MarkerCmds :
       (c \in pActive /\ \E sh \in Shells : ShellFinishWith(c, sh, 1))
         => \/ cRun'[c] = "emitting" /\ cMark'[c] = 1
            \/ cFut'[c] = "resolved" /\ cRes'[c].exitCode = 1]_vars

\* An operation of the manager addressed to session s.
AddressedTo(s) == DisposePty(s) \/ WritePty(s) \/ ResizePty(s)

\* C19: dispose, write and resize addressed to an id that is not in the
\* index change nothing (no kill, no write, no resize, no state), and no
\* process is killed more than once by dispose.
C19_MissingIdNoOp ==
  [][\A s \in Sessions :
       /\ (s \notin pIndex /\ AddressedTo(s)) => UNCHANGED vars
       /\ pKills'[s] <= 1]_vars

\* A session was disposed and its process has not exited yet: a second
\* dispose and the exit notification can both follow.
C19_Witness ==
  \E s \in Sessions :
    /\ pKills[s] = 1
    /\ s \notin pIndex
    /\ pProc[s] = "alive"

\* C20: the consumer's onExit has run once for a session whose process has
\* exited and not at all otherwise, and when it ran the session was no
\* longer in the index (nor is it afterwards).
C20_ExitOnceAfterRemoval ==
  \A s \in Sessions :
    /\ pExits[s] = (IF pProc[s] = "exited" THEN 1 ELSE 0)
    /\ pExits[s] = 1 => (~pSeen[s] /\ s \notin pIndex)

\* The process of a disposed session exited and onExit ran.
C20_Witness ==
  \E s \in Sessions :
    /\ pExits[s] = 1
    /\ pKills[s] = 1
    /\ pProc[s] = "exited"

PolicyTable(platform, gpu) ==
  IF platform = "darwin" THEN [torch |-> "cpu", extra |-> FALSE]
  ELSE CASE gpu = "nvidia<30xx" -> [torch |-> "cuda", extra |-> TRUE]
         [] gpu = "amd" -> [torch |-> "rocm", extra |-> FALSE]
         [] gpu = "nogpu" -> [torch |-> "cpu", extra |-> FALSE]
         [] OTHER -> [torch |-> "cuda", extra |-> FALSE]

\* C22: the arguments of the package-install command follow the policy
\* table for the host platform and the requested GPU type: the index is the
\* pinned index of the table's torch platform (none if the pins name none)
\* and the specifier carries the extra exactly when the table says so.
C22_PackagePolicy ==
  pkArgs # NoArgs =>
    LET pol == PolicyTable(pkIn.platform, pkIn.gpu)
    IN /\ pkArgs.index = TorchIndexUrl(pkIn.platform, pkIn.pins, pol.torch)
       /\ pkArgs.specifier = PackageSpecifier(pol.extra)

\* ------------------------------------------------------------------------
\* Further properties of the install workflow
\* ------------------------------------------------------------------------

\* C23: a run deletes the environment only if repair was requested; a run
\* without repair that finds an environment neither deletes it nor spawns
\* an environment-creation process; and a run that spawns the
\* environment-creation process does so with no environment in place.
C23_DeleteOnlyOnRepair ==
  [][\A r \in Runs :
       /\ (VenvRemoved(r) /\ fsVenv' # fsVenv) => repair[r]
       /\ (VenvProbed(r) /\ ~repair[r] /\ fsVenv)
            => (iPc'[r] # "venvRm" /\ "venv" \notin spawned'[r])
       /\ ((VenvProbed(r) \/ VenvRemoved(r)) /\ "venv" \in spawned'[r])
            => ~fsVenv']_vars


C24_UnusableInstallFails ==
  [][\A k \in Starts :
       (\E b \in BOOLEAN : InvokeProbedWith(k, FALSE, b)) =>
          /\ vStatus' = "error"
          /\ vPc'[k] = "done"
          /\ vProc'[k] = "none"
          /\ ~firstRun'[k]
          /\ UNCHANGED <<ptys, vProc, vKilled, currentPtyId, window, orphans, vMarker>>]_vars

\* A start ended by the failed installation test: error is published, the
\* start has no process and the first-run marker is still there.
C24_Witness ==
  \E k \in Starts :
    /\ vStatus = "error"
    /\ vPc[k] = "done"
    /\ vProc[k] = "none"
    /\ vMarker
    /\ ~window

\* ---------------------------------------------------------------------------
\* Properties of the status bridge
\* ---------------------------------------------------------------------------

\* C25: once the manager's status has stopped changing, a poll cycle that
\* began after the last change leaves the renderer's store equal to the
\* manager's current status when it completes, whatever pushes were dropped;
\* this holds for the install and for the application status alike.
C25_PollReconciles ==
  [][\A p \in Polls : (PollCompleted(p) /\ p \in sFresh) => sStore' = sMain']_vars

\* ---------------------------------------------------------------------------
\* Properties of the output buffers
\* ---------------------------------------------------------------------------

\* The last n items of s, all of s if it has fewer.
LastItems(s, n) == IF Len(s) <= n THEN s ELSE SubSeq(s, Len(s) - n + 1, Len(s))

\* C26: after any sequence of pushes, and in particular one longer than the
\* capacity, get() of the sliding history buffer returns exactly the last
\* capacity-many pushed items in the order they were pushed.
C26_LastItemsKept ==
  /\ SlidingGet(hItems) = LastItems(hPushed, MaxHistory)
  /\ Len(hPushed) > MaxHistory => Len(SlidingGet(hItems)) = MaxHistory

\* More items than the capacity were pushed, the last of them differing
\* from the evicted ones.
C26_Witness ==
  /\ Len(hPushed) > MaxHistory
  /\ hPushed[1] # hPushed[Len(hPushed)]
  /\ hItems # <<>>

\* The text s ends inside an escape sequence that the buffer withholds.
EndsTruncated(s) == WithheldFrom(s) # 0

C29_ExitingEnds ==
  (vStatus = "exiting") ~> (vStatus \in {"exited", "error"})

\* ---------------------------------------------------------------------------
\* Properties of superseded runs and of shutdown
\* ---------------------------------------------------------------------------

\* The process of start k has been replaced: the supervisor tracks the
\* process of a later start.
Superseded(k) == currentPtyId # None /\ currentPtyId > k

\* C31: an exit notification or an output chunk of an application process
\* that a later startInvoke has superseded changes neither the published
\* status nor the display window nor the handle of the newer run.
C31_SupersededIsInert ==
  [][\A k \in Starts :
       ((AppExit(k) \/ AppData(k)) /\ Superseded(k))
         => UNCHANGED <<vStatus, window, currentPtyId>>]_vars

\* A startInstall was issued after run r began.
Restarted(r) == \E q \in Runs : q > r /\ iPc[q] # "idle"

\* C32: a cancellation accepted for an install run stays in force for it
\* when a later startInstall is issued before the run has ended: the run
\* spawns no further step process, and when its step process exits and the
\* run ends, the status it publishes is canceled.
C32_CancelSurvivesRestart ==
  [][\A r \in Runs :
       (r \in cancelSeen /\ Restarted(r))
         => /\ spawned'[r] \subseteq spawned[r]
            /\ (StepExit(r) /\ Ends(r)) => iStatus' = "canceled"]_vars

\* C33: the kill awaited by a runCommand call resolves exactly once: when the
\* exit notification of the killed process arrives, or when the timeout
\* elapses, or at once if issuing the kill throws; while a call waits the
\* killed process is alive and the timeout is armed, so the wait is bounded
\* by the timeout.
C33_KillResolvesOnce ==
  [][\A w \in Cmds :
       /\ (callPc[w] = "awaitKill" /\ callPc'[w] # "awaitKill")
            => (callPc'[w] = "done" /\ (ProcExit(killTarget[w]) \/ KillTimeout(w)))
       /\ (callPc[w] = "awaitKill" /\ ProcExit(killTarget[w])) => callPc'[w] = "done"
       /\ callPc[w] = "done" => callPc'[w] = "done"
       /\ (callPc[w] = "idle" /\ currentEntry # None /\ procKilled'[currentEntry] = "threw")
            => callPc'[w] # "awaitKill"
       /\ callPc'[w] = "awaitKill"
            => (procState'[killTarget'[w]] = "alive" /\ procKilled'[killTarget'[w]] = "sent")]_vars

\* A call that waited for its kill has resumed after the exit notification
\* of the killed process, and another one after the timeout, the killed
\* process being still alive.
C33_Witness ==
  \E w \in Cmds, x \in Cmds :
    /\ w # x
    /\ callPc[w] = "done" /\ callPc[x] = "done"
    /\ \E v \in Cmds : procKilled[v] = "sent" /\ procState[v] = "exited"
    /\ \E v \in Cmds : procKilled[v] = "sent" /\ procState[v] = "alive"


\* C36: reopenWindow opens a window and publishes running only when no
\* window is open, the tracked application process is alive and that
\* process itself has emitted its readiness line.
C36_ReopenOnlyForCurrent ==
  [][ReopenWindow =>
       /\ ~window
       /\ currentPtyId # None
       /\ vProc[currentPtyId] = "alive"
       /\ matched[currentPtyId]]_vars

\* ---------------------------------------------------------------------------
\* Properties of the console manager
\* ---------------------------------------------------------------------------

\* C34: the initialization commands of a createConsole call are written only
\* to the console that call created, and the call does not throw, also when
\* dispose or another createConsole ran while it awaited the installation
\* details.
C34_InitOnlyOwnConsole ==
  /\ \A id \in Consoles : \A w \in kInput[id] : w[1] \in {None, id}
  /\ \A c \in Consoles : kPc[c] # "thrown"

\* C35: a terminal:write or terminal:resize request whose session id is not
\* the id of the current console has no effect on any session.
C35_StaleIdNoEffect ==
  [][\A id \in RequestIds :
       ((TerminalWrite(id) \/ TerminalResize(id)) /\ id # consoleEntry)
         => UNCHANGED kInput]_vars

\* ------------------------------------------------------------------------
\* Properties of shutdown and of forced termination

\* C37: when cleanupInvokeManager runs, every application process that is
\* still alive is issued a termination, whatever the status is.
C37_CleanupKillsAlive ==
  [][CleanupInvoke => \A k \in Starts : vProc[k] = "alive" => vKilled'[k]]_vars

\* C38: the exit of an application process that was terminated on request
\* (exitInvoke while it was alive) publishes exited, whatever exit code and
\* signal the platform reports.
C38_KilledExitIsExited ==
  [][\A k \in Starts : (AppExit(k) /\ vKilled[k]) => vStatus' = "exited"]_vars

\* ------------------------------------------------------------------------
\* Properties of the replay history

\* PtyManager.replay(id) of the live session: the joined history.
Replay == Flatten(SlidingGet(hItems))

\* C39: while fewer than maxHistorySize fragments have been recorded for a
\* live session, replay(id) is the concatenation, in arrival order, of every
\* complete fragment the escape-sequence buffer returned for the session.
C39_ReplayHasEveryComplete ==
  (dOpen /\ Len(hPushed) < MaxHistory) => Replay = aOut

\* ------------------------------------------------------------------------
\* Properties of marker detection across chunks

\* C40: marker detection does not depend on how the output is split into
\* chunks: when the digits of a marker line arrive in a later chunk than
\* the marker text, the pending command resolves with the complete code.
C40_SplitMarkerResolves ==
  [][\A c \in MarkerCmds :
       (c \in pActive /\ cFut[c] = "pending" /\ ShellTail(c))
         => /\ cFut'[c] = "resolved"
            /\ cRes'[c].exitCode = cMark[c]]_vars

====
